---- MODULE Spec2Model ----
(***************************************************************************)
(* Inventory control application (src/app.py): the movement ledger, the    *)
(* stock aggregation queries and the stocktake sessions with their         *)
(* reconciliation (confirm).                                               *)
(*                                                                         *)
(* Tables are the variables.  A request handler is an operator that maps   *)
(* the request to a result record: the response ("outcome") and the new    *)
(* contents of the tables it writes; the action of the handler installs    *)
(* that result, which is what the commit at the end of the handler does.   *)
(* The confirm handler is also given statement by statement, with its      *)
(* open transaction in tx, for the properties of its commit.               *)
(*                                                                         *)
(* Quantities are REAL columns.  They are modelled in fixed point: one     *)
(* unit of the model is 5e-10, so that the tolerance 1e-9 of               *)
(* stocktake_confirm is two units and a difference below the tolerance     *)
(* that is not zero exists.                                                *)
(*                                                                         *)
(* Movement type names: "inbound" is the row named 入庫, "outbound" 出庫,   *)
(* "waste" 廃棄 and "adjustment" 棚卸調整.                                  *)
(***************************************************************************)
EXTENDS Integers, Sequences, FiniteSets, TLC

VARIABLES
    movement_types,         \* table movement_types: id -> name
    materials,              \* table materials: the ids of its rows
    inventory_movements,    \* table inventory_movements, in insertion order
    stocktake_sessions,     \* table stocktake_sessions: id -> row
    stocktake_items,        \* table stocktake_items: set of rows
    stocktake_order_items,  \* table stocktake_order_items: set of rows
    material_minimum_stock, \* column materials.minimum_stock: material id -> value
    material_store_minimums,\* table material_store_minimums: <<material id, store id>> -> value
    daily_reports,          \* table daily_reports: id -> row
    daily_report_orders,    \* table daily_report_orders: set of rows
    foreign_keys,           \* whether the database enforces the declared foreign keys
    tx,                     \* the open transaction of a confirm request
    requests,               \* the requests being served: connection -> request
    last                    \* the last request and its response

\* the minimum-stock thresholds and the daily report tables
minimums == <<material_minimum_stock, material_store_minimums>>
reports == <<daily_reports, daily_report_orders>>

vars == <<movement_types, materials, inventory_movements, stocktake_sessions,
          stocktake_items, stocktake_order_items, minimums, reports,
          foreign_keys, requests, tx, last>>

----------------------------------------------------------------------------
(* Bounds of the model *)

\* rows the users may hold at any time: ledger entries made with movement_add
\* and stocktake sessions, together
MaxRows == 2
\* largest quantity typed in a form, in units of 5e-10
MaxQty == 2

(* Program constants *)

\* abs(diff) < 1e-9, in units of 5e-10
EPS == 2

\* NULL of an integer column, an absent or unparseable integer form field
NoId == 0
\* parse_float(value) is None: the form field is absent, empty or no number
Missing == -1
\* NULL of a text column, an absent or empty text form field
NULL == "NULL"

\* a value of a minimum_stock column or field, or of a quantity: NULL (None),
\* a text that float() refuses, or a finite number in units of 5e-10
None == [is |-> "none", value |-> 0]
NotANumber == [is |-> "text", value |-> 0]
Number(n) == [is |-> "number", value |-> n]

\* 1.0 in units of 5e-10: 1e-9 is EPS units
One == 1000000000 * EPS

----------------------------------------------------------------------------
(* Reference data: no route writes stores or movement_types *)

stores == {1, 2}

AllMaterialIds == {1, 2}

\* the movement_types table as seeded, and one without the adjustment row
SeededTypes == (1 :> "inbound") @@ (2 :> "outbound") @@ (3 :> "waste") @@ (4 :> "adjustment")
TypesWithoutAdjustment == (1 :> "inbound") @@ (2 :> "outbound") @@ (3 :> "waste")

is_admin_user(user) == user.role = "admin"


----------------------------------------------------------------------------
(* Dates and months are strings; [:7] and the regular expression are tables *)

\* count_date[:7]
Prefix7(d) ==
    CASE d = "2024-06-30" -> "2024-06"
      [] d = "2024-06-15" -> "2024-06"
      [] d = "2024-07-31" -> "2024-07"
      [] d = "2024-13-01" -> "2024-13"
      [] d = "tomorrow"   -> "tomorro"
      [] OTHER            -> d

\* re.match(r"^\d{4}-\d{2}$", count_month)
MonthRegexOk(m) == m \in {"2024-06", "2024-07", "2024-13"}

\* 1 <= month <= 12
MonthRangeOk(m) == m \in {"2024-06", "2024-07"}

----------------------------------------------------------------------------
(* dict.get(key, default) *)
Get(dict, key, default) == IF key \in DOMAIN dict THEN dict[key] ELSE default

Abs(x) == IF x < 0 THEN -x ELSE x

SetMax(S) == IF S = {} THEN 0 ELSE CHOOSE x \in S : \A y \in S : y <= x

----------------------------------------------------------------------------
(* Stock aggregation *)

\* CASE WHEN mt.name IN ('出庫', '廃棄') THEN -im.quantity ELSE im.quantity END
SignedQuantity(name, quantity) ==
    IF name \in {"outbound", "waste"} THEN -quantity ELSE quantity

\* the rows of inventory_movements JOIN movement_types, as indexes of the ledger
JoinedRows(ledger, types) ==
    { i \in 1..Len(ledger) : ledger[i].movement_type_id \in DOMAIN types }

\* SUM(...) over a set of rows of the join
RECURSIVE SumRows(_, _, _)
SumRows(ledger, types, rows) ==
    IF rows = {} THEN 0
    ELSE LET i == CHOOSE x \in rows : TRUE
         IN SignedQuantity(types[ledger[i].movement_type_id], ledger[i].quantity)
              + SumRows(ledger, types, rows \ {i})

\* the rows of one GROUP BY group
GroupRows(ledger, types, material_id, store_id) ==
    { i \in JoinedRows(ledger, types) :
        /\ ledger[i].material_id = material_id
        /\ ledger[i].store_id = store_id }

\* fetch_store_stock_levels(store_id): material_id -> store_stock, one entry
\* for each material that has a row in the store
StockLevelsOf(ledger, types, store_id) ==
    LET mids == { ledger[i].material_id :
                    i \in { j \in JoinedRows(ledger, types) : ledger[j].store_id = store_id } }
    IN [ m \in mids |-> SumRows(ledger, types, GroupRows(ledger, types, m, store_id)) ]

fetch_store_stock_levels(store_id) ==
    StockLevelsOf(inventory_movements, movement_types, store_id)

\* system_stock.get(material_id, 0) or 0
CurrentStock(ledger, types, material_id, store_id) ==
    Get(StockLevelsOf(ledger, types, store_id), material_id, 0)

\* materials_list: the rows of the GROUP BY im.material_id, im.store_id query
StockRows(ledger, types) ==
    { [ material_id |-> ledger[i].material_id, store_id |-> ledger[i].store_id,
        store_stock |-> SumRows(ledger, types,
                                GroupRows(ledger, types, ledger[i].material_id,
                                          ledger[i].store_id)) ] :
      i \in JoinedRows(ledger, types) }

\* the loop over stock_rows:
\* stock_levels[material_id] = stock_levels.get(material_id, 0) + qty
RECURSIVE StockLevelsLoop(_, _)
StockLevelsLoop(stock_levels, rows) ==
    IF rows = {} THEN stock_levels
    ELSE LET row == CHOOSE r \in rows : TRUE
             qty == Get(stock_levels, row.material_id, 0) + row.store_stock
         IN StockLevelsLoop(
                [ m \in DOMAIN stock_levels \cup {row.material_id} |->
                    IF m = row.material_id THEN qty ELSE stock_levels[m] ],
                rows \ {row})

stock_levels == StockLevelsLoop(<<>>, StockRows(inventory_movements, movement_types))

\* per_store_stock[material_id][store_id] = qty
per_store_stock ==
    LET rows == StockRows(inventory_movements, movement_types)
    IN [ m \in { r.material_id : r \in rows } |->
           [ st \in { r.store_id : r \in { x \in rows : x.material_id = m } } |->
               (CHOOSE r \in rows : r.material_id = m /\ r.store_id = st).store_stock ] ]

\* stock_levels.get(material_id, 0): the stock of a material, all stores
TotalStock(material_id) == Get(stock_levels, material_id, 0)

\* per_store_stock.get(material_id, {}).get(store["id"], 0)
PerStoreStock(material_id, store_id) ==
    Get(Get(per_store_stock, material_id, <<>>), store_id, 0)

----------------------------------------------------------------------------
(* Minimum-stock thresholds: the stock status of materials_list and the      *)
(* recommended order of the daily report forms                               *)

\* float(minimum) does not raise TypeError or ValueError
ParsesAsFloat(minimum) == minimum.is = "number"

\* quantity or 0
OrZero(quantity) == IF quantity.is = "number" THEN quantity.value ELSE 0

\* classify_stock with the low threshold inclusive
classify_stock_inclusive(quantity, minimum_stock) ==
    IF minimum_stock = None THEN "stock-unknown"
    ELSE IF ~ParsesAsFloat(minimum_stock) THEN "stock-unknown"
    ELSE LET minimum_value == IF minimum_stock.value <= 0 THEN 0 ELSE minimum_stock.value
         IN  IF minimum_value # 0 /\ OrZero(quantity) <= minimum_value THEN "stock-low"
             ELSE IF minimum_value # 0 /\ OrZero(quantity) > minimum_value * 2
                  THEN "stock-high"
                  ELSE "stock-ok"

\* classify_stock with the labels of low and high exchanged
classify_stock_exchanged(quantity, minimum_stock) ==
    IF minimum_stock = None THEN "stock-unknown"
    ELSE IF ~ParsesAsFloat(minimum_stock) THEN "stock-unknown"
    ELSE LET minimum_value == IF minimum_stock.value <= 0 THEN 0 ELSE minimum_stock.value
         IN  IF minimum_value # 0 /\ OrZero(quantity) < minimum_value THEN "stock-high"
             ELSE IF minimum_value # 0 /\ OrZero(quantity) > minimum_value * 2
                  THEN "stock-low"
                  ELSE "stock-ok"

\* classify_stock(quantity, minimum_stock) of materials_list
classify_stock(quantity, minimum_stock) ==
    IF minimum_stock = None THEN "stock-unknown"
    ELSE IF ~ParsesAsFloat(minimum_stock) THEN "stock-unknown"
    ELSE LET minimum_value == IF minimum_stock.value <= 0 THEN 0 ELSE minimum_stock.value
         IN  IF minimum_value # 0 /\ OrZero(quantity) < minimum_value THEN "stock-low"
             ELSE IF minimum_value # 0 /\ OrZero(quantity) > minimum_value * 2
                  THEN "stock-high"
                  ELSE "stock-ok"

\* per_store_minimums.get(material_id, {}).get(store["id"]), and
\* store_minimums.get(material_id) of the daily report forms
StoreMinimum(material_id, store_id) ==
    Get(material_store_minimums, <<material_id, store_id>>, None)

\* store_minimum or min_stock: a store minimum of 0 falls back as well
applicable_min_truthy(store_minimum, min_stock) ==
    IF store_minimum # None /\ store_minimum # Number(0) THEN store_minimum ELSE min_stock

\* applicable_min = store_minimum if store_minimum is not None else min_stock
applicable_min(store_minimum, min_stock) ==
    IF store_minimum # None THEN store_minimum ELSE min_stock

\* stock_statuses of materials_list
stock_statuses ==
    [ material_id \in materials |->
        LET min_stock == material_minimum_stock[material_id]
        IN [ total |-> classify_stock(Number(TotalStock(material_id)), min_stock),
             stores |->
                 [ store_id \in stores |->
                     classify_stock(Number(PerStoreStock(material_id, store_id)),
                                    applicable_min(StoreMinimum(material_id, store_id),
                                                   min_stock)) ] ] ]

\* int(x), truncation, of a positive x
Floor(x) == x \div One

\* int(math.ceil(x)) of a positive x, in whole units
Ceil(x) == (x \div One) + (IF x % One = 0 THEN 0 ELSE 1)

\* recommended_order that takes a minimum of 0 for a threshold
recommended_order_of_any_minimum(stock, minimum) ==
    IF minimum # None /\ ParsesAsFloat(minimum) /\ minimum.value >= 0
    THEN LET shortage == minimum.value - stock
         IN IF shortage > 0 THEN Ceil(shortage) ELSE 0
    ELSE 0

\* recommended_order of one material row of a daily report form
recommended_order(stock, minimum) ==
    IF minimum # None /\ ParsesAsFloat(minimum) /\ minimum.value > 0
    THEN LET shortage == minimum.value - stock
         IN IF shortage > 0 THEN Ceil(shortage) ELSE 0
    ELSE 0

\* material_rows of daily_report_add_form and daily_report_edit_form for the
\* store of the form
material_rows(selected_store_id) ==
    LET store_stock == fetch_store_stock_levels(selected_store_id)
    IN [ material_id \in materials |->
           LET stock == Get(store_stock, material_id, 0)
               minimum == applicable_min(StoreMinimum(material_id, selected_store_id),
                                         material_minimum_stock[material_id])
           IN [ stock |-> stock, minimum |-> minimum,
                recommended_order |-> recommended_order(stock, minimum),
                is_low |-> recommended_order(stock, minimum) > 0 ] ]

\* the store of daily_report_add_form: the store of the user, or for an admin
\* the store_id argument when it names a store
selected_store_id(user, store_param) ==
    IF is_admin_user(user) /\ store_param # NoId /\ store_param \in stores
    THEN store_param
    ELSE user.store_id

----------------------------------------------------------------------------
(* Responses *)

Resp(op, sid, outcome) == [op |-> op, sid |-> sid, outcome |-> outcome]

\* HTTP status of an outcome
StatusCode(outcome) ==
    CASE outcome \in {"ok", "already_confirmed"} -> 302
      [] outcome = "not_found" -> 404
      [] outcome \in {"forbidden", "confirmed_locked"} -> 403
      [] outcome \in {"no_adjustment_type", "integrity_error", "server_error"} -> 500
      [] OTHER -> 400

----------------------------------------------------------------------------
(* Ledger *)

\* id of the next row of a table whose ids are `ids`
NextId(ids) == SetMax(ids) + 1

MovementIds(ledger) == { ledger[i].id : i \in 1..Len(ledger) }

\* one row of inventory_movements; memo is the id of the stocktake session the
\* text "棚卸調整 (stocktake:<id>)" names, NoId for any other text
Movement(id, store_id, material_id, movement_type_id, quantity, datetime, memo) ==
    [ id |-> id, store_id |-> store_id, material_id |-> material_id,
      movement_type_id |-> movement_type_id, quantity |-> quantity,
      datetime |-> datetime, memo |-> memo ]

\* a row of inventory_movements built from the form would break one of the
\* foreign keys to stores.id, materials.id and movement_types.id
DanglingReference(form) ==
    \/ form.store_id \notin stores
    \/ form.material_id \notin materials
    \/ form.movement_type_id \notin DOMAIN movement_types

\* a movement_add that replaces the rows of the material in the store
movement_add_replacing(form) ==
    LET kept == SelectSeq(inventory_movements,
                          LAMBDA row : ~( row.store_id = form.store_id
                                          /\ row.material_id = form.material_id ))
    IN [ outcome |-> "ok",
         inventory_movements |->
             Append(kept, Movement(NextId(MovementIds(inventory_movements)),
                                   form.store_id, form.material_id,
                                   form.movement_type_id, form.quantity,
                                   form.datetime, NoId)) ]

\* POST /movements/add
movement_add(form) ==
    IF \/ form.store_id = NoId
       \/ form.material_id = NoId
       \/ form.movement_type_id = NoId
       \/ form.quantity = Missing
       \/ form.datetime = NULL
    THEN [ outcome |-> "missing_field", inventory_movements |-> inventory_movements ]
    ELSE IF foreign_keys /\ DanglingReference(form)
    THEN [ outcome |-> "integrity_error", inventory_movements |-> inventory_movements ]
    ELSE [ outcome |-> "ok",
           inventory_movements |->
               Append(inventory_movements,
                      Movement(NextId(MovementIds(inventory_movements)),
                               form.store_id, form.material_id,
                               form.movement_type_id, form.quantity,
                               form.datetime, NoId)) ]

\* POST /movements/<movement_id>/edit: UPDATE ... WHERE id = ?
edit_movement(movement_id, form) ==
    IF foreign_keys /\ movement_id \in MovementIds(inventory_movements)
                    /\ DanglingReference(form)
    THEN [ outcome |-> "integrity_error", inventory_movements |-> inventory_movements ]
    ELSE [ outcome |-> "ok",
           inventory_movements |->
               [ i \in 1..Len(inventory_movements) |->
                   IF inventory_movements[i].id = movement_id
                   THEN Movement(movement_id, form.store_id, form.material_id,
                                 form.movement_type_id, form.quantity,
                                 form.datetime, NoId)
                   ELSE inventory_movements[i] ] ]

\* POST /movements/<movement_id>/delete: DELETE ... WHERE id = ?
delete_movement(movement_id) ==
    [ outcome |-> "ok",
      inventory_movements |->
          SelectSeq(inventory_movements, LAMBDA row : row.id # movement_id) ]

----------------------------------------------------------------------------
(* Catalog *)

\* the rows that hold a foreign key to materials.id
MaterialReferenced(material_id) ==
    \/ \E i \in 1..Len(inventory_movements) :
           inventory_movements[i].material_id = material_id
    \/ \E si \in stocktake_items : si.material_id = material_id
    \/ \E soi \in stocktake_order_items : soi.material_id = material_id
    \/ \E key \in DOMAIN material_store_minimums : key[1] = material_id
    \/ \E dro \in daily_report_orders : dro.material_id = material_id

\* POST /materials/<id>/delete: DELETE FROM materials WHERE id = ?
delete_material(material_id) ==
    IF foreign_keys /\ material_id \in materials /\ MaterialReferenced(material_id)
    THEN [ outcome |-> "integrity_error", materials |-> materials ]
    ELSE [ outcome |-> "ok", materials |-> materials \ {material_id} ]

\* POST /materials/<id>/edit: the minimum_stock field is stored as typed (a
\* REAL column of SQLite keeps a text that is no number, PostgreSQL refuses
\* it); the store minimums of the material are deleted and those fields that
\* float() accepts are inserted
edit_material(material_id, form) ==
    LET kept == { key \in DOMAIN material_store_minimums : key[1] # material_id }
        added == { store_id \in stores : ParsesAsFloat(form.store_minimum[store_id]) }
        rows == [ key \in kept \cup { <<material_id, store_id>> : store_id \in added } |->
                    IF key[1] = material_id THEN form.store_minimum[key[2]]
                    ELSE material_store_minimums[key] ]
        unchanged(outcome) ==
            [ outcome |-> outcome, material_minimum_stock |-> material_minimum_stock,
              material_store_minimums |-> material_store_minimums ]
    IN  IF foreign_keys /\ ~ParsesAsFloat(form.minimum_stock)
        THEN unchanged("server_error")
        ELSE IF foreign_keys /\ material_id \notin materials /\ added # {}
        THEN unchanged("integrity_error")
        ELSE [ outcome |-> "ok",
               material_minimum_stock |->
                   [ m \in DOMAIN material_minimum_stock |->
                       IF m = material_id THEN form.minimum_stock
                       ELSE material_minimum_stock[m] ],
               material_store_minimums |-> rows ]

----------------------------------------------------------------------------
(* Daily reports *)

\* one row of daily_reports; sales stands for the figures of the report
\* (sales, wasted_takoyaki, production_sets, working_hours,
\* next_material_delivery, remarks), which are read and written together
Report(store_id, date, sales) == [ store_id |-> store_id, date |-> date, sales |-> sales ]

\* a handler that takes the store_id of the form from every user
FormStoreOfAnyUser(user, form, store_id) ==
    IF form.store_id # NoId THEN form.store_id ELSE store_id

\* store_id = current_user.store_id; for an admin
\* parse_int(request.form.get("store_id")) or store_id
FormStore(user, form, store_id) ==
    IF is_admin_user(user) /\ form.store_id # NoId THEN form.store_id ELSE store_id

\* the order_qty_<material_id> fields of a known material with a quantity > 0
ReportOrdersOfForm(daily_report_id, form, material_ids) ==
    { [ daily_report_id |-> daily_report_id, material_id |-> m,
        quantity |-> form.order_qty[m] ] :
      m \in { x \in material_ids \cap DOMAIN form.order_qty : form.order_qty[x] > 0 } }

ReportsUnchanged(outcome, id) ==
    [ outcome |-> outcome, id |-> id, daily_reports |-> daily_reports,
      daily_report_orders |-> daily_report_orders ]

\* the report of a store and date, NoId when there is none
ExistingReport(reports_, store_id, date, except_id) ==
    LET found == { id \in DOMAIN reports_ :
                     /\ reports_[id].store_id = store_id
                     /\ reports_[id].date = date
                     /\ id # except_id }
    IN IF found = {} THEN NoId ELSE CHOOSE id \in found : TRUE

\* daily_report_add without the lookup of the existing report
daily_report_add_insert_only(user, form) ==
    LET store_id == FormStore(user, form, user.store_id)
        daily_report_id == NextId(DOMAIN daily_reports)
    IN  IF form.date = NULL THEN ReportsUnchanged("missing_date", NoId)
        ELSE IF store_id \notin stores THEN ReportsUnchanged("invalid_store", NoId)
        ELSE [ outcome |-> "ok", id |-> daily_report_id,
               daily_reports |->
                   [ id \in DOMAIN daily_reports \cup {daily_report_id} |->
                       IF id = daily_report_id THEN Report(store_id, form.date, form.sales)
                       ELSE daily_reports[id] ],
               daily_report_orders |->
                   daily_report_orders
                     \cup ReportOrdersOfForm(daily_report_id, form, materials) ]

\* POST /daily_reports/add
daily_report_add(user, form) ==
    LET store_id == FormStore(user, form, user.store_id)
        existing == ExistingReport(daily_reports, store_id, form.date, NoId)
        daily_report_id ==
            IF existing # NoId THEN existing ELSE NextId(DOMAIN daily_reports)
    IN  IF form.date = NULL THEN ReportsUnchanged("missing_date", NoId)
        ELSE IF store_id \notin stores THEN ReportsUnchanged("invalid_store", NoId)
        ELSE [ outcome |-> "ok", id |-> daily_report_id,
               daily_reports |->
                   [ id \in DOMAIN daily_reports \cup {daily_report_id} |->
                       IF id = daily_report_id
                       THEN IF existing # NoId
                            THEN [ daily_reports[id] EXCEPT !.sales = form.sales ]
                            ELSE Report(store_id, form.date, form.sales)
                       ELSE daily_reports[id] ],
               daily_report_orders |->
                   { dro \in daily_report_orders : dro.daily_report_id # daily_report_id }
                     \cup ReportOrdersOfForm(daily_report_id, form, materials) ]

\* POST /daily_reports/<id>/edit
daily_report_edit(user, daily_report_id, form) ==
    IF daily_report_id \notin DOMAIN daily_reports
    THEN ReportsUnchanged("not_found", daily_report_id)
    ELSE
    LET report == daily_reports[daily_report_id]
        store_id == FormStore(user, form, report.store_id)
    IN  IF ~is_admin_user(user) /\ report.store_id # user.store_id
        THEN ReportsUnchanged("forbidden", daily_report_id)
        ELSE IF form.date = NULL THEN ReportsUnchanged("missing_date", daily_report_id)
        ELSE IF ExistingReport(daily_reports, store_id, form.date, daily_report_id) # NoId
        THEN ReportsUnchanged("already_exists", daily_report_id)
        ELSE IF foreign_keys /\ store_id \notin stores
        THEN ReportsUnchanged("integrity_error", daily_report_id)
        ELSE [ outcome |-> "ok", id |-> daily_report_id,
               daily_reports |->
                   [ daily_reports EXCEPT
                       ![daily_report_id] = Report(store_id, form.date, form.sales) ],
               daily_report_orders |->
                   { dro \in daily_report_orders : dro.daily_report_id # daily_report_id }
                     \cup ReportOrdersOfForm(daily_report_id, form, materials) ]

\* POST /daily_reports/<id>/delete
daily_report_delete(user, daily_report_id) ==
    IF daily_report_id \notin DOMAIN daily_reports
    THEN ReportsUnchanged("not_found", daily_report_id)
    ELSE IF ~is_admin_user(user) /\ daily_reports[daily_report_id].store_id # user.store_id
    THEN ReportsUnchanged("forbidden", daily_report_id)
    ELSE [ outcome |-> "ok", id |-> daily_report_id,
           daily_reports |->
               [ id \in DOMAIN daily_reports \ {daily_report_id} |-> daily_reports[id] ],
           daily_report_orders |->
               { dro \in daily_report_orders : dro.daily_report_id # daily_report_id } ]

\* GET /daily_reports/<id>/edit: the report is read through JOIN stores
daily_report_edit_form(user, daily_report_id) ==
    IF \/ daily_report_id \notin DOMAIN daily_reports
       \/ daily_reports[daily_report_id].store_id \notin stores
    THEN [ outcome |-> "not_found", material_rows |-> <<>> ]
    ELSE IF ~is_admin_user(user) /\ daily_reports[daily_report_id].store_id # user.store_id
    THEN [ outcome |-> "forbidden", material_rows |-> <<>> ]
    ELSE [ outcome |-> "ok",
           material_rows |-> material_rows(daily_reports[daily_report_id].store_id) ]

----------------------------------------------------------------------------
(* Stocktake sessions *)

\* one row of stocktake_sessions (company_id is always NULL, notes is free text)
Session(store_id, count_date, session_type, count_month, status, confirmed_at) ==
    [ store_id |-> store_id, count_date |-> count_date,
      session_type |-> session_type, count_month |-> count_month,
      status |-> status, confirmed_at |-> confirmed_at ]

\* a database without idx_stocktake_sessions_monthly_unique
NoMonthlyUniqueIndex(sessions, session_id, session_type, store_id, count_month) ==
    FALSE

\* idx_stocktake_sessions_monthly_unique ON stocktake_sessions(store_id, count_month)
\* WHERE session_type = 'monthly': whether the row (session_id, session_type,
\* store_id, count_month) collides with another row of `sessions`
MonthlyUniqueViolated(sessions, session_id, session_type, store_id, count_month) ==
    /\ session_type = "monthly"
    /\ count_month # NULL
    /\ \E other \in DOMAIN sessions \ {session_id} :
          /\ sessions[other].session_type = "monthly"
          /\ sessions[other].store_id = store_id
          /\ sessions[other].count_month = count_month

\* the stocktake_items rows built from the count_qty_<material_id> fields
ItemsOfForm(session_id, form, material_ids) ==
    { [ session_id |-> session_id, material_id |-> m,
        counted_quantity |-> form.count_qty[m] ] : m \in material_ids }

\* the stocktake_order_items rows built from the order_qty_<material_id> fields:
\* known materials with a quantity > 0
OrderItemsOfForm(session_id, form, material_ids) ==
    { [ session_id |-> session_id, material_id |-> m,
        quantity |-> form.order_qty[m] ] :
      m \in { x \in material_ids \cap DOMAIN form.order_qty :
                 form.order_qty[x] # Missing /\ form.order_qty[x] > 0 } }

\* the counts are not looked at
CountMissingIgnored(form, material_ids) == FALSE

\* a count is missing for a material of the catalog
CountMissing(form, material_ids) ==
    \E m \in material_ids : Get(form.count_qty, m, Missing) = Missing

\* the response of a stocktake handler that wrote nothing (or rolled back)
StocktakeUnchanged(outcome, sid) ==
    [ outcome |-> outcome, sid |-> sid,
      stocktake_sessions |-> stocktake_sessions,
      stocktake_items |-> stocktake_items,
      stocktake_order_items |-> stocktake_order_items ]

\* POST /stocktakes/add
stocktake_add(user, form) ==
    LET count_date == form.date
        session_type == IF form.session_type \in {"ad_hoc", "monthly"}
                        THEN form.session_type ELSE "ad_hoc"
        count_month == IF session_type = "monthly"
                       THEN (IF form.count_month = NULL THEN Prefix7(count_date)
                             ELSE form.count_month)
                       ELSE NULL
        store_id == IF is_admin_user(user) /\ form.store_id # NoId
                    THEN form.store_id ELSE user.store_id
        session_id == NextId(DOMAIN stocktake_sessions)
    IN  IF count_date = NULL THEN StocktakeUnchanged("no_date", NoId)
        ELSE IF session_type = "monthly"
                /\ ~(MonthRegexOk(count_month) /\ MonthRangeOk(count_month))
        THEN StocktakeUnchanged("bad_month", NoId)
        ELSE IF store_id \notin stores THEN StocktakeUnchanged("bad_store", NoId)
        ELSE IF MonthlyUniqueViolated(stocktake_sessions, session_id, session_type,
                                      store_id, count_month)
        THEN StocktakeUnchanged("already_exists", NoId)
        ELSE IF CountMissing(form, materials)
        THEN StocktakeUnchanged("missing_count", NoId)
        ELSE [ outcome |-> "ok", sid |-> session_id,
               stocktake_sessions |->
                   (session_id :> Session(store_id, count_date, session_type,
                                          count_month, "draft", NoId))
                   @@ stocktake_sessions,
               stocktake_items |->
                   stocktake_items \cup ItemsOfForm(session_id, form, materials),
               stocktake_order_items |->
                   stocktake_order_items
                       \cup OrderItemsOfForm(session_id, form, materials) ]

\* a handler that takes every session for a draft
is_confirmed_never(session) == FALSE

\* session["status"] == "confirmed", the test that locks edit and delete
is_confirmed(session) == session.status = "confirmed"

\* POST /stocktakes/<session_id>/edit
stocktake_edit(user, session_id, form) ==
    IF session_id \notin DOMAIN stocktake_sessions
    THEN StocktakeUnchanged("not_found", session_id)
    ELSE
    LET session == stocktake_sessions[session_id]
        store_id == IF is_admin_user(user) /\ form.store_id # NoId
                    THEN form.store_id ELSE session.store_id
        count_date == form.date
        session_type == session.session_type
        count_month == IF session_type = "monthly" THEN Prefix7(count_date) ELSE NULL
    IN  IF ~is_admin_user(user) /\ session.store_id # user.store_id
        THEN StocktakeUnchanged("forbidden", session_id)
        ELSE IF is_confirmed(session)
        THEN StocktakeUnchanged("confirmed_locked", session_id)
        ELSE IF count_date = NULL THEN StocktakeUnchanged("no_date", session_id)
        ELSE IF session_type = "monthly" /\ ~MonthRegexOk(count_month)
        THEN StocktakeUnchanged("bad_month", session_id)
        ELSE IF \/ MonthlyUniqueViolated(stocktake_sessions, session_id,
                                         session_type, store_id, count_month)
                \/ (foreign_keys /\ store_id \notin stores)
        THEN StocktakeUnchanged(IF session_type = "monthly" THEN "already_exists"
                                ELSE "integrity_error", session_id)
        ELSE IF CountMissing(form, materials)
        THEN StocktakeUnchanged("missing_count", session_id)
        ELSE [ outcome |-> "ok", sid |-> session_id,
               stocktake_sessions |->
                   [ stocktake_sessions EXCEPT
                       ![session_id].store_id = store_id,
                       ![session_id].count_date = count_date,
                       ![session_id].count_month = count_month ],
               stocktake_items |->
                   { si \in stocktake_items : si.session_id # session_id }
                       \cup ItemsOfForm(session_id, form, materials),
               stocktake_order_items |->
                   { soi \in stocktake_order_items : soi.session_id # session_id }
                       \cup OrderItemsOfForm(session_id, form, materials) ]

\* stocktake_delete without the test of session["status"]
stocktake_delete_unguarded(user, session_id) ==
    IF session_id \notin DOMAIN stocktake_sessions
    THEN StocktakeUnchanged("not_found", session_id)
    ELSE
    LET session == stocktake_sessions[session_id]
    IN  IF ~is_admin_user(user) /\ session.store_id # user.store_id
        THEN StocktakeUnchanged("forbidden", session_id)
        ELSE [ outcome |-> "ok", sid |-> session_id,
               stocktake_sessions |->
                   [ id \in DOMAIN stocktake_sessions \ {session_id} |->
                       stocktake_sessions[id] ],
               stocktake_items |->
                   { si \in stocktake_items : si.session_id # session_id },
               stocktake_order_items |->
                   { soi \in stocktake_order_items : soi.session_id # session_id } ]

\* POST /stocktakes/<session_id>/delete
stocktake_delete(user, session_id) ==
    IF session_id \notin DOMAIN stocktake_sessions
    THEN StocktakeUnchanged("not_found", session_id)
    ELSE
    LET session == stocktake_sessions[session_id]
    IN  IF ~is_admin_user(user) /\ session.store_id # user.store_id
        THEN StocktakeUnchanged("forbidden", session_id)
        ELSE IF is_confirmed(session)
        THEN StocktakeUnchanged("confirmed_locked", session_id)
        ELSE [ outcome |-> "ok", sid |-> session_id,
               stocktake_sessions |->
                   [ id \in DOMAIN stocktake_sessions \ {session_id} |->
                       stocktake_sessions[id] ],
               stocktake_items |->
                   { si \in stocktake_items : si.session_id # session_id },
               stocktake_order_items |->
                   { soi \in stocktake_order_items : soi.session_id # session_id } ]

----------------------------------------------------------------------------
(* Stocktake confirm: reconciliation *)

\* SELECT id FROM movement_types WHERE name = '棚卸調整' (first row), None as NoId
AdjustmentTypeId(types) ==
    LET ids == { t \in DOMAIN types : types[t] = "adjustment" }
    IN IF ids = {} THEN NoId ELSE CHOOSE t \in ids : \A u \in ids : t <= u

\* FROM stocktake_items si JOIN materials m ON si.material_id = m.id
\* WHERE si.session_id = ?
ConfirmItems(session_id) ==
    { si \in stocktake_items :
        si.session_id = session_id /\ si.material_id \in materials }

\* the difference taken the wrong way round: current - counted
DiffReversed(item, store_id) ==
    CurrentStock(inventory_movements, movement_types, item.material_id, store_id)
      - item.counted_quantity

\* diff = float(counted) - float(current)
Diff(item, store_id) ==
    item.counted_quantity
      - CurrentStock(inventory_movements, movement_types, item.material_id, store_id)

\* an adjustment is written for every item
SkippedNever(diff) == FALSE

\* abs(diff) < 1e-9: continue
Skipped(diff) == Abs(diff) < EPS

\* the items of the session that get an adjustment
AdjustedItems(session_id) ==
    { si \in ConfirmItems(session_id) :
        ~Skipped(Diff(si, stocktake_sessions[session_id].store_id)) }

\* the INSERT INTO inventory_movements loop, items taken by material id
RECURSIVE InsertAdjustments(_, _, _, _)
InsertAdjustments(ledger, session_id, movement_type_id, items) ==
    IF items = {} THEN ledger
    ELSE LET si == CHOOSE x \in items : \A y \in items : x.material_id <= y.material_id
             session == stocktake_sessions[session_id]
         IN InsertAdjustments(
                Append(ledger,
                       Movement(NextId(MovementIds(ledger)), session.store_id,
                                si.material_id, movement_type_id,
                                Diff(si, session.store_id), session.count_date,
                                session_id)),
                session_id, movement_type_id, items \ {si})

ConfirmUnchanged(outcome, sid) ==
    [ outcome |-> outcome, sid |-> sid,
      inventory_movements |-> inventory_movements,
      stocktake_sessions |-> stocktake_sessions ]

\* stocktake_confirm without the test of session["status"]
stocktake_confirm_unguarded(user, session_id, now) ==
    IF session_id \notin DOMAIN stocktake_sessions
    THEN ConfirmUnchanged("not_found", session_id)
    ELSE
    LET session == stocktake_sessions[session_id]
        movement_type_id == AdjustmentTypeId(movement_types)
    IN  IF ~is_admin_user(user) /\ session.store_id # user.store_id
        THEN ConfirmUnchanged("forbidden", session_id)
        ELSE IF movement_type_id = NoId
        THEN ConfirmUnchanged("no_adjustment_type", session_id)
        ELSE [ outcome |-> "ok", sid |-> session_id,
               inventory_movements |->
                   InsertAdjustments(inventory_movements, session_id,
                                     movement_type_id, AdjustedItems(session_id)),
               stocktake_sessions |->
                   [ stocktake_sessions EXCEPT
                       ![session_id].status = "confirmed",
                       ![session_id].confirmed_at = now ] ]

\* POST /stocktakes/<session_id>/confirm
stocktake_confirm(user, session_id, now) ==
    IF session_id \notin DOMAIN stocktake_sessions
    THEN ConfirmUnchanged("not_found", session_id)
    ELSE
    LET session == stocktake_sessions[session_id]
        movement_type_id == AdjustmentTypeId(movement_types)
    IN  IF ~is_admin_user(user) /\ session.store_id # user.store_id
        THEN ConfirmUnchanged("forbidden", session_id)
        ELSE IF session.status = "confirmed"
        THEN ConfirmUnchanged("already_confirmed", session_id)
        ELSE IF movement_type_id = NoId
        THEN ConfirmUnchanged("no_adjustment_type", session_id)
        ELSE [ outcome |-> "ok", sid |-> session_id,
               inventory_movements |->
                   InsertAdjustments(inventory_movements, session_id,
                                     movement_type_id, AdjustedItems(session_id)),
               stocktake_sessions |->
                   [ stocktake_sessions EXCEPT
                       ![session_id].status = "confirmed",
                       ![session_id].confirmed_at = now ] ]

----------------------------------------------------------------------------
(* The transaction of a confirm request, statement by statement *)

\* no transaction is open
NoTx == [session_id |-> NoId, todo |-> <<>>, pending |-> <<>>]

\* the committed tables a confirm writes
Committed ==
    [ inventory_movements |-> inventory_movements,
      stocktake_sessions |-> stocktake_sessions ]

\* the statements of a confirm that passed its checks: one INSERT per
\* adjustment, then the UPDATE of the session
ConfirmStatements(r, session_id) ==
    [ i \in 1..(Len(r.inventory_movements) - Len(inventory_movements)) |->
        [ sql |-> "INSERT", row |-> r.inventory_movements[Len(inventory_movements) + i] ] ]
      \o << [ sql |-> "UPDATE", row |-> r.stocktake_sessions[session_id] ] >>

\* the effect of one statement on the tables
Apply(db, statement, session_id) ==
    IF statement.sql = "INSERT"
    THEN [ db EXCEPT !.inventory_movements = Append(@, statement.row) ]
    ELSE [ db EXCEPT !.stocktake_sessions =
             [ id \in DOMAIN @ |-> IF id = session_id THEN statement.row ELSE @[id] ] ]

\* a connection that commits every statement as it is executed
db_execute_autocommit(db, pending, statement, session_id) ==
    [ db |-> Apply(db, statement, session_id), pending |-> pending ]

\* db.session.execute: the statement joins the open transaction, the committed
\* tables stay as they are
db_execute(db, pending, statement, session_id) ==
    [ db |-> db, pending |-> Append(pending, statement) ]

\* db.session.commit(): the statements of the transaction reach the tables
RECURSIVE commit(_, _, _)
commit(db, pending, session_id) ==
    IF pending = <<>> THEN db
    ELSE commit(Apply(db, Head(pending), session_id), Tail(pending), session_id)

----------------------------------------------------------------------------
(* Requests that are served at the same time *)

\* the connections of the server: each serves one request at a time
Connections == {1, 2}

\* a connection that serves no request
Idle == [op |-> "idle"]

NoRequests == [c \in Connections |-> Idle]

----------------------------------------------------------------------------
(* Requests *)

Admin == [role |-> "admin", store_id |-> NoId]
Staff(store_id) == [role |-> "staff", store_id |-> store_id]

\* the fields of the movement form
MovementForms(material_ids, type_ids, quantities) ==
    [ store_id : stores, material_id : material_ids, movement_type_id : type_ids,
      quantity : quantities, datetime : {"2024-06-01"} ]

\* the fields of the stocktake form; count_qty and order_qty hold the
\* count_qty_<material_id> and order_qty_<material_id> fields
StocktakeForms(dates, types, months, store_ids, count_qtys, order_qtys) ==
    [ date : dates, session_type : types, count_month : months, store_id : store_ids,
      count_qty : count_qtys, order_qty : order_qtys ]

\* rows of the ledger entered with movement_add
UserRows == { i \in 1..Len(inventory_movements) : inventory_movements[i].memo = NoId }

RowsHeld ==
    Cardinality(UserRows) + Cardinality(DOMAIN stocktake_sessions)
      + Cardinality(DOMAIN daily_reports)

\* CURRENT_TIMESTAMP as a logical clock: it advances with every confirm, so the
\* timestamps of two confirms differ
Now ==
    1 + Cardinality({ id \in DOMAIN stocktake_sessions :
                        stocktake_sessions[id].status = "confirmed" })

----------------------------------------------------------------------------
(* Actions: one per handler, over the requests of a specification *)

MovementAdd(forms) ==
    \E form \in forms :
        LET r == movement_add(form)
        IN  /\ RowsHeld < MaxRows
            /\ inventory_movements' = r.inventory_movements
            /\ last' = Resp("movement_add", NoId, r.outcome)
            /\ UNCHANGED <<movement_types, materials, stocktake_sessions,
                           stocktake_items, stocktake_order_items, foreign_keys, requests, tx,
                           minimums, reports>>

MovementEdit(movement_ids, forms) ==
    \E movement_id \in movement_ids, form \in forms :
        LET r == edit_movement(movement_id, form)
        IN  /\ inventory_movements' = r.inventory_movements
            /\ last' = Resp("edit_movement", NoId, r.outcome)
            /\ UNCHANGED <<movement_types, materials, stocktake_sessions,
                           stocktake_items, stocktake_order_items, foreign_keys, requests, tx,
                           minimums, reports>>

MovementDelete(movement_ids) ==
    \E movement_id \in movement_ids :
        LET r == delete_movement(movement_id)
        IN  /\ inventory_movements' = r.inventory_movements
            /\ last' = Resp("delete_movement", NoId, r.outcome)
            /\ UNCHANGED <<movement_types, materials, stocktake_sessions,
                           stocktake_items, stocktake_order_items, foreign_keys, requests, tx,
                           minimums, reports>>

DeleteMaterial(material_ids) ==
    \E material_id \in material_ids :
        LET r == delete_material(material_id)
        IN  /\ materials' = r.materials
            /\ material_minimum_stock' =
                   [ m \in DOMAIN material_minimum_stock \cap r.materials |->
                       material_minimum_stock[m] ]
            /\ last' = Resp("delete_material", NoId, r.outcome)
            /\ UNCHANGED <<movement_types, inventory_movements, stocktake_sessions,
                           stocktake_items, stocktake_order_items, foreign_keys, requests, tx,
                           material_store_minimums, reports>>

EditMaterial(material_ids, forms) ==
    \E material_id \in material_ids, form \in forms :
        LET r == edit_material(material_id, form)
        IN  /\ material_minimum_stock' = r.material_minimum_stock
            /\ material_store_minimums' = r.material_store_minimums
            /\ last' = Resp("edit_material", NoId, r.outcome)
            /\ UNCHANGED <<movement_types, materials, inventory_movements,
                           stocktake_sessions, stocktake_items, stocktake_order_items,
                           foreign_keys, requests, tx, reports>>

\* every table, the database and the open transaction
tables == <<movement_types, materials, inventory_movements, stocktake_sessions,
            stocktake_items, stocktake_order_items, minimums, reports,
            foreign_keys, requests, tx>>

\* one call of classify_stock
ClassifyStock(quantities, minimum_stocks) ==
    \E quantity \in quantities, minimum_stock \in minimum_stocks :
        /\ last' = [ op |-> "classify_stock", sid |-> NoId, outcome |-> "ok",
                     quantity |-> quantity, minimum_stock |-> minimum_stock,
                     label |-> classify_stock(quantity, minimum_stock) ]
        /\ UNCHANGED tables

\* one (stock, minimum) pair shown on both pages: the label of classify_stock
\* on the materials page and the row of the daily report form
MaterialRow(quantities, minimum_stocks) ==
    \E quantity \in quantities, minimum_stock \in minimum_stocks :
        /\ last' = [ op |-> "material_row", sid |-> NoId, outcome |-> "ok",
                     quantity |-> quantity, minimum_stock |-> minimum_stock,
                     label |-> classify_stock(quantity, minimum_stock),
                     recommended_order |->
                         recommended_order(OrZero(quantity), minimum_stock),
                     is_low |-> recommended_order(OrZero(quantity), minimum_stock) > 0 ]
        /\ UNCHANGED tables

\* GET /materials
MaterialsList ==
    /\ last' = [ op |-> "materials_list", sid |-> NoId, outcome |-> "ok",
                 stock_statuses |-> stock_statuses ]
    /\ UNCHANGED tables

\* GET /daily_reports/add
DailyReportAddForm(users, store_params) ==
    \E user \in users, store_param \in store_params :
        /\ last' = [ op |-> "daily_report_add_form",
                     sid |-> selected_store_id(user, store_param), outcome |-> "ok",
                     material_rows |-> material_rows(selected_store_id(user, store_param)) ]
        /\ UNCHANGED tables

\* every table but the daily reports
other_tables == <<movement_types, materials, inventory_movements, stocktake_sessions,
                  stocktake_items, stocktake_order_items, minimums, foreign_keys, requests, tx>>

DailyReportAdd(users, forms) ==
    \E user \in users, form \in forms :
        LET r == daily_report_add(user, form)
        IN  /\ RowsHeld + Cardinality(DOMAIN r.daily_reports \ DOMAIN daily_reports)
                  <= MaxRows
            /\ NextId(DOMAIN daily_reports) <= MaxRows + 1
            /\ daily_reports' = r.daily_reports
            /\ daily_report_orders' = r.daily_report_orders
            /\ last' = Resp("daily_report_add", r.id, r.outcome)
            /\ UNCHANGED other_tables

DailyReportEdit(users, daily_report_ids, forms) ==
    \E user \in users, daily_report_id \in daily_report_ids, form \in forms :
        LET r == daily_report_edit(user, daily_report_id, form)
        IN  /\ daily_reports' = r.daily_reports
            /\ daily_report_orders' = r.daily_report_orders
            /\ last' = Resp("daily_report_edit", r.id, r.outcome)
            /\ UNCHANGED other_tables

DailyReportDelete(users, daily_report_ids) ==
    \E user \in users, daily_report_id \in daily_report_ids :
        LET r == daily_report_delete(user, daily_report_id)
        IN  /\ daily_reports' = r.daily_reports
            /\ daily_report_orders' = r.daily_report_orders
            /\ last' = Resp("daily_report_delete", r.id, r.outcome)
            /\ UNCHANGED other_tables

\* GET /daily_reports/<id>/edit
DailyReportEditForm(users, daily_report_ids) ==
    \E user \in users, daily_report_id \in daily_report_ids :
        LET r == daily_report_edit_form(user, daily_report_id)
        IN  /\ last' = [ op |-> "daily_report_edit_form", sid |-> daily_report_id,
                         outcome |-> r.outcome, material_rows |-> r.material_rows ]
            /\ UNCHANGED tables

StocktakeAdd(users, forms) ==
    \E user \in users, form \in forms :
        LET r == stocktake_add(user, form)
        IN  /\ RowsHeld < MaxRows
            /\ NextId(DOMAIN stocktake_sessions) <= MaxRows
            /\ stocktake_sessions' = r.stocktake_sessions
            /\ stocktake_items' = r.stocktake_items
            /\ stocktake_order_items' = r.stocktake_order_items
            /\ last' = Resp("stocktake_add", r.sid, r.outcome)
            /\ UNCHANGED <<movement_types, materials, inventory_movements,
                           foreign_keys, requests, tx,
                           minimums, reports>>

StocktakeEdit(users, session_ids, forms) ==
    \E user \in users, session_id \in session_ids, form \in forms :
        LET r == stocktake_edit(user, session_id, form)
        IN  /\ stocktake_sessions' = r.stocktake_sessions
            /\ stocktake_items' = r.stocktake_items
            /\ stocktake_order_items' = r.stocktake_order_items
            /\ last' = Resp("stocktake_edit", r.sid, r.outcome)
            /\ UNCHANGED <<movement_types, materials, inventory_movements,
                           foreign_keys, requests, tx,
                           minimums, reports>>

StocktakeDelete(users, session_ids) ==
    \E user \in users, session_id \in session_ids :
        LET r == stocktake_delete(user, session_id)
        IN  /\ stocktake_sessions' = r.stocktake_sessions
            /\ stocktake_items' = r.stocktake_items
            /\ stocktake_order_items' = r.stocktake_order_items
            /\ last' = Resp("stocktake_delete", r.sid, r.outcome)
            /\ UNCHANGED <<movement_types, materials, inventory_movements,
                           foreign_keys, requests, tx,
                           minimums, reports>>

StocktakeConfirm(users, session_ids) ==
    \E user \in users, session_id \in session_ids :
        LET r == stocktake_confirm(user, session_id, Now)
        IN  /\ inventory_movements' = r.inventory_movements
            /\ stocktake_sessions' = r.stocktake_sessions
            /\ last' = Resp("stocktake_confirm", r.sid, r.outcome)
            /\ UNCHANGED <<movement_types, materials, stocktake_items,
                           stocktake_order_items, foreign_keys, requests, tx,
                           minimums, reports>>

\* stocktake_confirm up to its first write: the checks, the items, the stock
\* and the adjustments; a request that fails a check is answered at once
ConfirmBegin(users, session_ids) ==
    \E user \in users, session_id \in session_ids :
        LET r == stocktake_confirm(user, session_id, Now)
        IN  /\ tx = NoTx
            /\ IF r.outcome = "ok"
               THEN /\ tx' = [ session_id |-> session_id,
                               todo |-> ConfirmStatements(r, session_id),
                               pending |-> <<>> ]
                    /\ last' = Resp("stocktake_confirm", session_id, "begun")
               ELSE /\ tx' = NoTx
                    /\ last' = Resp("stocktake_confirm", r.sid, r.outcome)
            /\ UNCHANGED <<movement_types, materials, inventory_movements,
                           stocktake_sessions, stocktake_items,
                           stocktake_order_items, foreign_keys, requests, minimums, reports>>

\* the next db_execute of the open confirm
ConfirmExecute ==
    /\ tx # NoTx
    /\ tx.todo # <<>>
    /\ LET r == db_execute(Committed, tx.pending, Head(tx.todo), tx.session_id)
       IN  /\ inventory_movements' = r.db.inventory_movements
           /\ stocktake_sessions' = r.db.stocktake_sessions
           /\ tx' = [ tx EXCEPT !.todo = Tail(@), !.pending = r.pending ]
    /\ last' = Resp("stocktake_confirm", tx.session_id, "executing")
    /\ UNCHANGED <<movement_types, materials, stocktake_items,
                   stocktake_order_items, foreign_keys, requests, minimums, reports>>

\* db.session.commit() at the end of the open confirm
ConfirmCommit ==
    /\ tx # NoTx
    /\ tx.todo = <<>>
    /\ LET db == commit(Committed, tx.pending, tx.session_id)
       IN  /\ inventory_movements' = db.inventory_movements
           /\ stocktake_sessions' = db.stocktake_sessions
    /\ tx' = NoTx
    /\ last' = Resp("stocktake_confirm", tx.session_id, "ok")
    /\ UNCHANGED <<movement_types, materials, stocktake_items,
                   stocktake_order_items, foreign_keys, requests, minimums, reports>>

\* a statement or the commit of the open confirm raises (the connection is
\* lost, the database refuses the write): the exception leaves the handler and
\* the transaction is rolled back when the request is torn down
ConfirmFail ==
    /\ tx # NoTx
    /\ tx' = NoTx
    /\ last' = Resp("stocktake_confirm", tx.session_id, "server_error")
    /\ UNCHANGED <<movement_types, materials, inventory_movements,
                   stocktake_sessions, stocktake_items, stocktake_order_items,
                   foreign_keys, requests, minimums, reports>>

----------------------------------------------------------------------------
(* The reconciliation specification: the head office (an admin) enters       *)
(* movements of one unit, deletes materials, and creates, recounts and       *)
(* confirms ad-hoc stocktake sessions of one date in either store.           *)

Init ==
    /\ movement_types = SeededTypes
    /\ foreign_keys \in BOOLEAN
    /\ requests = NoRequests
    /\ materials = AllMaterialIds
    /\ inventory_movements = <<>>
    /\ stocktake_sessions = <<>>
    /\ stocktake_items = {}
    /\ stocktake_order_items = {}
    /\ material_minimum_stock = [m \in AllMaterialIds |-> None]
    /\ material_store_minimums = <<>>
    /\ daily_reports = <<>>
    /\ daily_report_orders = {}
    /\ tx = NoTx
    /\ last = Resp("none", NoId, "ok")

CoreForms ==
    StocktakeForms({"2024-06-30"}, {"ad_hoc"}, {NULL}, stores,
                   [AllMaterialIds -> 0..MaxQty], {[m \in AllMaterialIds |-> Missing]})

Next ==
    \/ MovementAdd(MovementForms(materials, DOMAIN movement_types, {1}))
    \/ DeleteMaterial(AllMaterialIds)
    \/ StocktakeAdd({Admin}, CoreForms)
    \/ StocktakeEdit({Admin}, DOMAIN stocktake_sessions, CoreForms)
    \/ StocktakeConfirm({Admin}, DOMAIN stocktake_sessions)

Spec == Init /\ [][Next]_vars

----------------------------------------------------------------------------
(* The transaction specification: the head office enters movements and       *)
(* creates ad-hoc sessions; a confirm runs statement by statement and may    *)
(* fail at any of them; the reference data may lack the adjustment type.     *)
(* Requests are served one at a time.                                        *)

InitTx ==
    /\ movement_types \in {SeededTypes, TypesWithoutAdjustment}
    /\ foreign_keys \in BOOLEAN
    /\ requests = NoRequests
    /\ materials = AllMaterialIds
    /\ inventory_movements = <<>>
    /\ stocktake_sessions = <<>>
    /\ stocktake_items = {}
    /\ stocktake_order_items = {}
    /\ material_minimum_stock = [m \in AllMaterialIds |-> None]
    /\ material_store_minimums = <<>>
    /\ daily_reports = <<>>
    /\ daily_report_orders = {}
    /\ tx = NoTx
    /\ last = Resp("none", NoId, "ok")

NextTx ==
    \/ tx = NoTx /\ MovementAdd(MovementForms(materials, {1, 2}, {1}))
    \/ tx = NoTx /\ StocktakeAdd({Admin}, CoreForms)
    \/ ConfirmBegin({Admin}, DOMAIN stocktake_sessions)
    \/ ConfirmExecute
    \/ ConfirmCommit
    \/ ConfirmFail

SpecTx == InitTx /\ [][NextTx]_vars

----------------------------------------------------------------------------
(* The session specification: the head office and the staff of store 1       *)
(* create, edit, delete and confirm ad-hoc and monthly sessions of two       *)
(* months; a form carries its counts with or without an order, or lacks a    *)
(* count.                                                                    *)

Users == {Admin, Staff(1)}

\* counts of zero with an order for material 1, full counts without an order,
\* and a form without the count of material 2
SessionContents ==
    { [count_qty |-> [m \in AllMaterialIds |-> 0],
       order_qty |-> [m \in AllMaterialIds |-> IF m = 1 THEN 1 ELSE Missing]],
      [count_qty |-> [m \in AllMaterialIds |-> MaxQty],
       order_qty |-> [m \in AllMaterialIds |-> Missing]],
      [count_qty |-> [m \in AllMaterialIds |-> IF m = 1 THEN 0 ELSE Missing],
       order_qty |-> [m \in AllMaterialIds |-> Missing]] }

\* the create forms: either type on either date, the month left to the date,
\* and one monthly form that names a month 13
CreateForms ==
    { [ date |-> d, session_type |-> t, count_month |-> NULL, store_id |-> st,
        count_qty |-> c.count_qty, order_qty |-> c.order_qty ] :
      d \in {"2024-06-30", "2024-07-31"}, t \in {"ad_hoc", "monthly"},
      st \in {NoId, 2}, c \in SessionContents }
    \cup
    { [ date |-> "2024-06-30", session_type |-> "monthly", count_month |-> "2024-13",
        store_id |-> 2, count_qty |-> [m \in AllMaterialIds |-> 0],
        order_qty |-> [m \in AllMaterialIds |-> Missing] ] }

\* the edit forms: stocktake_edit reads neither session_type nor count_month
EditForms ==
    { [ date |-> d, session_type |-> NULL, count_month |-> NULL, store_id |-> st,
        count_qty |-> c.count_qty, order_qty |-> c.order_qty ] :
      d \in {"2024-06-30", "2024-07-31"}, st \in {NoId, 2}, c \in SessionContents }

NextSessions ==
    \/ StocktakeAdd(Users, CreateForms)
    \/ StocktakeEdit(Users, DOMAIN stocktake_sessions, EditForms)
    \/ StocktakeDelete(Users, DOMAIN stocktake_sessions)
    \/ StocktakeConfirm(Users, DOMAIN stocktake_sessions)

SpecSessions == Init /\ [][NextSessions]_vars

----------------------------------------------------------------------------
(* The ledger specification: movements of material 1 are added, edited and   *)
(* deleted; a form names a store and a movement type that exist or not;      *)
(* movement_types holds a fifth name; material 2 never moves.                *)

\* the ids a form may name: the stores and store 3, the types and type 9
StoreIds == stores \cup {3}
LedgerTypes == SeededTypes @@ (5 :> "transfer")
TypeIds == DOMAIN LedgerTypes \cup {9}

LedgerForms ==
    [ store_id : StoreIds, material_id : {1}, movement_type_id : TypeIds,
      quantity : {1, MaxQty}, datetime : {"2024-06-01"} ]

InitLedger ==
    /\ movement_types = LedgerTypes
    /\ foreign_keys \in BOOLEAN
    /\ requests = NoRequests
    /\ materials = AllMaterialIds
    /\ inventory_movements = <<>>
    /\ stocktake_sessions = <<>>
    /\ stocktake_items = {}
    /\ stocktake_order_items = {}
    /\ material_minimum_stock = [m \in AllMaterialIds |-> None]
    /\ material_store_minimums = <<>>
    /\ daily_reports = <<>>
    /\ daily_report_orders = {}
    /\ tx = NoTx
    /\ last = Resp("none", NoId, "ok")

\* ids of the ledger stay within MaxRows + 1
NextLedger ==
    \/ /\ NextId(MovementIds(inventory_movements)) <= MaxRows + 1
       /\ MovementAdd(LedgerForms)
    \/ MovementEdit(MovementIds(inventory_movements), LedgerForms)
    \/ MovementDelete(MovementIds(inventory_movements))

SpecLedger == InitLedger /\ [][NextLedger]_vars

----------------------------------------------------------------------------
(* The classifier specification: classify_stock is called with a quantity    *)
(* that is absent or a number around the thresholds and with a minimum that  *)
(* is absent, no number, negative, zero or positive.                         *)

Quantities == {None} \cup { Number(n) : n \in -1..(2 * MaxQty + 2) }
MinimumStocks == {None, NotANumber} \cup { Number(n) : n \in -1..(MaxQty + 1) }

NextClassify == ClassifyStock(Quantities, MinimumStocks)

SpecClassify == Init /\ [][NextClassify]_vars

----------------------------------------------------------------------------
(* The status specification: movements of material 1 enter and leave store   *)
(* 1, the thresholds of material 1 are edited (its global minimum and the    *)
(* minimum of store 1), and the materials page and the daily report form     *)
(* are read by the head office and by the staff of store 1.                  *)

StatusMovements == MovementForms({1}, {1, 2}, {1, MaxQty})

\* the fields minimum_stock and minimum_stock_store_<id> of the material form
MaterialForms(minimum_stocks, store_minimum_stocks) ==
    [ minimum_stock : minimum_stocks, store_minimum : store_minimum_stocks ]

StatusMaterialForms ==
    MaterialForms({NotANumber, Number(0), Number(1), Number(MaxQty)},
                  { [store_id \in stores |-> IF store_id = 1 THEN v ELSE None] :
                      v \in {None, NotANumber, Number(0), Number(1)} })

NextStatus ==
    \/ MovementAdd({ form \in StatusMovements : form.store_id = 1 })
    \/ EditMaterial({1}, StatusMaterialForms)
    \/ MaterialsList
    \/ DailyReportAddForm(Users, {NoId} \cup stores)

SpecStatus == Init /\ [][NextStatus]_vars

----------------------------------------------------------------------------
(* The reorder specification: store 1 has one daily report and one movement, *)
(* which is edited to bring the stock of material 1 or 2 just below, onto    *)
(* or just above 1.0; the thresholds of material 1 are edited to values      *)
(* around 1.0; the two daily report forms are read.                          *)

\* stock of -5e-10, and of 5e-10, 1.0 - 5e-10, 1.0 and 1.0 + 5e-10
ReorderMovements ==
    { form \in MovementForms(AllMaterialIds, {1}, {1, One - 1, One, One + 1})
                 \cup MovementForms(AllMaterialIds, {2}, {1}) : form.store_id = 1 }

ReorderMaterialForms ==
    MaterialForms({NotANumber, Number(-One), Number(0), Number(1), Number(One),
                   Number(One + 1)},
                  { [store_id \in stores |-> IF store_id = 1 THEN v ELSE None] :
                      v \in {None, Number(0), Number(One)} })

InitReorder ==
    /\ movement_types = SeededTypes
    /\ foreign_keys \in BOOLEAN
    /\ requests = NoRequests
    /\ materials = AllMaterialIds
    /\ inventory_movements = <<Movement(1, 1, 1, 1, 1, "2024-06-01", NoId)>>
    /\ stocktake_sessions = <<>>
    /\ stocktake_items = {}
    /\ stocktake_order_items = {}
    /\ material_minimum_stock = [m \in AllMaterialIds |-> None]
    /\ material_store_minimums = <<>>
    /\ daily_reports = (1 :> Report(1, "2024-06-30", 0))
    /\ daily_report_orders = {}
    /\ tx = NoTx
    /\ last = Resp("none", NoId, "ok")

NextReorder ==
    \/ MovementEdit({1}, ReorderMovements)
    \/ EditMaterial({1}, ReorderMaterialForms)
    \/ DailyReportAddForm(Users, {NoId} \cup stores)
    \/ DailyReportEditForm(Users, {1, 2})

SpecReorder == InitReorder /\ [][NextReorder]_vars

----------------------------------------------------------------------------
(* The report specification: the head office and the staff of store 1 save,  *)
(* edit and delete daily reports of two dates; a form may lack its date, and *)
(* the head office may name store 2 or, on the edit form, a store 3 that     *)
(* does not exist.                                                           *)

\* the fields of the daily report form; order_qty holds the
\* order_qty_<material_id> fields
ReportForms(dates, store_ids) ==
    { [ date |-> d, store_id |-> st, sales |-> c.sales, order_qty |-> c.order_qty ] :
      d \in dates, st \in store_ids,
      c \in { [ sales |-> 1, order_qty |-> [m \in AllMaterialIds |-> 0] ],
              [ sales |-> MaxQty,
                order_qty |-> [m \in AllMaterialIds |-> IF m = 1 THEN 1 ELSE 0] ] } }

ReportDates == {"2024-06-30", "2024-07-31", NULL}

SaveForms == ReportForms(ReportDates, {NoId, 2})
ReportEditForms == ReportForms(ReportDates, {NoId, 2, 3})

NextReports ==
    \/ DailyReportAdd(Users, SaveForms)
    \/ DailyReportEdit(Users, DOMAIN daily_reports, ReportEditForms)
    \/ DailyReportDelete(Users, DOMAIN daily_reports)

SpecReports == Init /\ [][NextReports]_vars

----------------------------------------------------------------------------
(* The draft specification: the head office creates ad-hoc and monthly       *)
(* sessions of two months in store 1 and edits them; an edit form may name   *)
(* a store 3 that does not exist and a date in a month 13; a form carries    *)
(* the counts of both materials with an order, or the count of material 1    *)
(* alone; material 2 may be deleted from the catalog.                        *)

DraftContents ==
    { [count_qty |-> [m \in AllMaterialIds |-> 0],
       order_qty |-> [m \in AllMaterialIds |-> IF m = 1 THEN 1 ELSE Missing]],
      [count_qty |-> [m \in AllMaterialIds |-> IF m = 1 THEN MaxQty ELSE Missing],
       order_qty |-> [m \in AllMaterialIds |-> Missing]] }

DraftCreateForms ==
    { [ date |-> d, session_type |-> t, count_month |-> NULL, store_id |-> 1,
        count_qty |-> c.count_qty, order_qty |-> c.order_qty ] :
      d \in {"2024-06-30", "2024-07-31"}, t \in {"ad_hoc", "monthly"},
      c \in DraftContents }

DraftEditForms ==
    { [ date |-> d, session_type |-> NULL, count_month |-> NULL, store_id |-> st,
        count_qty |-> c.count_qty, order_qty |-> c.order_qty ] :
      d \in {"2024-06-30", "2024-07-31", "2024-13-01"}, st \in {NoId, 3},
      c \in DraftContents }

NextDrafts ==
    \/ StocktakeAdd({Admin}, DraftCreateForms)
    \/ StocktakeEdit({Admin}, DOMAIN stocktake_sessions, DraftEditForms)
    \/ DeleteMaterial({2})

SpecDrafts == Init /\ [][NextDrafts]_vars

----------------------------------------------------------------------------
(* The operations specification: every operation on store 1 by the head      *)
(* office: movements of material 1 are added, edited and deleted; a session  *)
(* is created, recounted, deleted and confirmed; the thresholds of material  *)
(* 1 are edited and material 2 is deleted; a daily report is saved, edited   *)
(* and deleted; the pages are read.                                          *)

\* the stocktake form with every count q
OperationsCounts(q) ==
    StocktakeForms({"2024-06-30"}, {"ad_hoc"}, {NULL}, {1},
                   {[m \in AllMaterialIds |-> q]}, {[m \in AllMaterialIds |-> Missing]})

\* the daily report form of 2024-06-30 with the sales
OperationsReports(sales) ==
    { form \in ReportForms({"2024-06-30"}, {1}) : form.sales = sales }

NextOperations ==
    \/ /\ NextId(MovementIds(inventory_movements)) <= MaxRows + 1
       /\ MovementAdd(MovementForms({1}, {1}, {1}))
    \/ MovementEdit(MovementIds(inventory_movements), MovementForms({1}, {2}, {MaxQty}))
    \/ MovementDelete(MovementIds(inventory_movements))
    \/ EditMaterial({1}, MaterialForms({Number(1)}, {[store_id \in stores |-> None]}))
    \/ DeleteMaterial({2})
    \/ StocktakeAdd({Admin}, OperationsCounts(0))
    \/ StocktakeEdit({Admin}, DOMAIN stocktake_sessions, OperationsCounts(MaxQty))
    \/ StocktakeDelete({Admin}, DOMAIN stocktake_sessions)
    \/ StocktakeConfirm({Admin}, DOMAIN stocktake_sessions)
    \/ DailyReportAdd({Admin}, OperationsReports(1))
    \/ DailyReportEdit({Admin}, DOMAIN daily_reports, OperationsReports(MaxQty))
    \/ DailyReportDelete({Admin}, DOMAIN daily_reports)
    \/ MaterialsList
    \/ DailyReportAddForm({Admin}, {1})
    \/ DailyReportEditForm({Admin}, DOMAIN daily_reports)

SpecOperations == Init /\ [][NextOperations]_vars

----------------------------------------------------------------------------
(* The access specification: the head office and the staff of store 1 send   *)
(* every request on movements, sessions and daily reports of either store;   *)
(* a request names an id that exists or not.                                 *)

\* the ids a request may name
AccessIds == 1..(MaxRows + 1)

AccessMovements == MovementForms({1}, {1}, {1})

AccessCounts ==
    StocktakeForms({"2024-06-30"}, {"ad_hoc"}, {NULL}, {NoId, 2},
                   {[m \in AllMaterialIds |-> 0]}, {[m \in AllMaterialIds |-> Missing]})

AccessReports ==
    { form \in ReportForms({"2024-06-30"}, {NoId, 2}) : form.sales = 1 }

NextAccess ==
    \/ /\ NextId(MovementIds(inventory_movements)) <= MaxRows + 1
       /\ MovementAdd(AccessMovements)
    \/ MovementEdit(AccessIds, AccessMovements)
    \/ MovementDelete(AccessIds)
    \/ StocktakeAdd(Users, AccessCounts)
    \/ StocktakeEdit(Users, AccessIds, AccessCounts)
    \/ StocktakeDelete(Users, AccessIds)
    \/ StocktakeConfirm(Users, AccessIds)
    \/ DailyReportAdd(Users, AccessReports)
    \/ DailyReportEdit(Users, AccessIds, AccessReports)
    \/ DailyReportDelete(Users, AccessIds)
    \/ DailyReportEditForm(Users, AccessIds)

SpecAccess == Init /\ [][NextAccess]_vars

----------------------------------------------------------------------------
(* The catalog specification: the thresholds of either material are edited   *)
(* (the global minimum and the minimum of store 1), either material is       *)
(* deleted, and the materials page is read.                                  *)

NextCatalog ==
    \/ EditMaterial(AllMaterialIds, StatusMaterialForms)
    \/ DeleteMaterial(AllMaterialIds)
    \/ MaterialsList

SpecCatalog == Init /\ [][NextCatalog]_vars

----------------------------------------------------------------------------
(* The shortage specification: one quantity and one minimum (absent, no      *)
(* number, negative, zero, positive) are shown on the materials page and on  *)
(* the daily report form.                                                     *)

NextShortage == MaterialRow(Quantities, MinimumStocks)

SpecShortage == Init /\ [][NextShortage]_vars

----------------------------------------------------------------------------
(* Handlers statement by statement. The connections share the committed      *)
(* tables (read committed: a SELECT sees what is committed when it runs);    *)
(* what a request has read it keeps in its own variables, and its writes     *)
(* reach the tables when it commits. No handler takes a lock or reads a row  *)
(* again before it writes.                                                   *)

\* every table and the open transaction of the sequential confirm
database == <<movement_types, materials, inventory_movements, stocktake_sessions,
              stocktake_items, stocktake_order_items, minimums, reports,
              foreign_keys, tx>>

\* the response of a step of the connection
RespOf(connection, op, sid, outcome) ==
    [ op |-> op, sid |-> sid, outcome |-> outcome, connection |-> connection ]

\* SELECT * FROM stocktake_sessions WHERE id = ? and the tests of the row that
\* open stocktake_edit, stocktake_delete and stocktake_confirm
SelectSession(user, session_id, when_confirmed) ==
    IF session_id \notin DOMAIN stocktake_sessions THEN "not_found"
    ELSE IF /\ ~is_admin_user(user)
            /\ stocktake_sessions[session_id].store_id # user.store_id
    THEN "forbidden"
    ELSE IF stocktake_sessions[session_id].status = "confirmed" THEN when_confirmed
    ELSE "draft"

\* diff = float(counted) - float(current), current taken from the
\* system_stock the request has read
DiffOf(item, system_stock) ==
    item.counted_quantity - Get(system_stock, item.material_id, 0)

\* the INSERT INTO inventory_movements loop of a confirm over the items and
\* the stock it has read, items taken by material id
RECURSIVE InsertAdjustmentsOf(_, _, _, _, _, _)
InsertAdjustmentsOf(ledger, session_id, session, movement_type_id, items, system_stock) ==
    IF items = {} THEN ledger
    ELSE LET si == CHOOSE x \in items : \A y \in items : x.material_id <= y.material_id
         IN InsertAdjustmentsOf(
                Append(ledger,
                       Movement(NextId(MovementIds(ledger)), session.store_id,
                                si.material_id, movement_type_id,
                                DiffOf(si, system_stock), session.count_date,
                                session_id)),
                session_id, session, movement_type_id, items \ {si}, system_stock)

\* the writes of stocktake_confirm: the adjustments of the items it has read,
\* then UPDATE stocktake_sessions SET status = 'confirmed' WHERE id = ?
stocktake_confirm_write(request, now) ==
    LET adjusted == { si \in request.items :
                        ~Skipped(DiffOf(si, request.system_stock)) }
    IN  [ outcome |-> "ok", sid |-> request.session_id,
          inventory_movements |->
              InsertAdjustmentsOf(inventory_movements, request.session_id,
                                  request.session, request.movement_type_id,
                                  adjusted, request.system_stock),
          stocktake_sessions |->
              [ id \in DOMAIN stocktake_sessions |->
                  IF id = request.session_id
                  THEN [ stocktake_sessions[id] EXCEPT !.status = "confirmed",
                                                       !.confirmed_at = now ]
                  ELSE stocktake_sessions[id] ] ]

\* the form tests of stocktake_edit that follow the tests of the row
EditFormOutcome(session, form) ==
    IF form.date = NULL THEN "no_date"
    ELSE IF session.session_type = "monthly" /\ ~MonthRegexOk(Prefix7(form.date))
    THEN "bad_month"
    ELSE "draft"

\* the writes of stocktake_edit, for the session row it has read: the UPDATE
\* of the row (no row when the session is gone), the test of the counts, the
\* DELETE and INSERT of the items and of the order items
stocktake_edit_write(request) ==
    LET session_id == request.session_id
        form == request.form
        session == request.session
        store_id == IF is_admin_user(request.user) /\ form.store_id # NoId
                    THEN form.store_id ELSE session.store_id
        count_month == IF session.session_type = "monthly"
                       THEN Prefix7(form.date) ELSE NULL
        exists == session_id \in DOMAIN stocktake_sessions
    IN  IF /\ exists
           /\ \/ MonthlyUniqueViolated(stocktake_sessions, session_id,
                                       session.session_type, store_id, count_month)
              \/ (foreign_keys /\ store_id \notin stores)
        THEN StocktakeUnchanged(IF session.session_type = "monthly"
                                THEN "already_exists" ELSE "integrity_error",
                                session_id)
        ELSE IF CountMissing(form, materials)
        THEN StocktakeUnchanged("missing_count", session_id)
        ELSE IF ~exists /\ foreign_keys /\ materials # {}
        THEN StocktakeUnchanged("integrity_error", session_id)
        ELSE [ outcome |-> "ok", sid |-> session_id,
               stocktake_sessions |->
                   [ id \in DOMAIN stocktake_sessions |->
                       IF id = session_id
                       THEN [ stocktake_sessions[id] EXCEPT
                                !.store_id = store_id,
                                !.count_date = form.date,
                                !.count_month = count_month ]
                       ELSE stocktake_sessions[id] ],
               stocktake_items |->
                   { si \in stocktake_items : si.session_id # session_id }
                       \cup ItemsOfForm(session_id, form, materials),
               stocktake_order_items |->
                   { soi \in stocktake_order_items : soi.session_id # session_id }
                       \cup OrderItemsOfForm(session_id, form, materials) ]

\* the writes of stocktake_delete: the three DELETE statements
stocktake_delete_write(request) ==
    [ outcome |-> "ok", sid |-> request.session_id,
      stocktake_sessions |->
          [ id \in DOMAIN stocktake_sessions \ {request.session_id} |->
              stocktake_sessions[id] ],
      stocktake_items |->
          { si \in stocktake_items : si.session_id # request.session_id },
      stocktake_order_items |->
          { soi \in stocktake_order_items : soi.session_id # request.session_id } ]

\* a request on a session that has passed the tests of the row it read
SessionRequest(op, pc, user, session_id, form) ==
    [ op |-> op, pc |-> pc, user |-> user, session_id |-> session_id,
      form |-> form, session |-> stocktake_sessions[session_id],
      items |-> {}, system_stock |-> <<>>, movement_type_id |-> NoId ]

\* stocktake_confirm up to its tests of the session row
ConfirmSelectSession(users, session_ids) ==
    \E c \in Connections, user \in users, session_id \in session_ids :
        LET outcome == SelectSession(user, session_id, "already_confirmed")
        IN  /\ requests[c] = Idle
            /\ IF outcome = "draft"
               THEN /\ requests' =
                          [ requests EXCEPT ![c] =
                              SessionRequest("stocktake_confirm", "items", user,
                                             session_id, NULL) ]
                    /\ last' = RespOf(c, "stocktake_confirm", session_id, "reading")
               ELSE /\ requests' = requests
                    /\ last' = RespOf(c, "stocktake_confirm", session_id, outcome)
            /\ UNCHANGED database

\* stocktake_confirm: SELECT ... FROM stocktake_items si JOIN materials m
ConfirmSelectItems ==
    \E c \in Connections :
        /\ requests[c].op = "stocktake_confirm"
        /\ requests[c].pc = "items"
        /\ requests' = [ requests EXCEPT
                           ![c].items = ConfirmItems(requests[c].session_id),
                           ![c].pc = "stock" ]
        /\ last' = RespOf(c, "stocktake_confirm", requests[c].session_id, "reading")
        /\ UNCHANGED database

\* stocktake_confirm: fetch_store_stock_levels(session["store_id"]) and the
\* SELECT of the adjustment type, which ends the request when there is none
ConfirmSelectStock ==
    \E c \in Connections :
        LET movement_type_id == AdjustmentTypeId(movement_types)
        IN  /\ requests[c].op = "stocktake_confirm"
            /\ requests[c].pc = "stock"
            /\ IF movement_type_id = NoId
               THEN /\ requests' = [ requests EXCEPT ![c] = Idle ]
                    /\ last' = RespOf(c, "stocktake_confirm", requests[c].session_id,
                                      "no_adjustment_type")
               ELSE /\ requests' =
                          [ requests EXCEPT
                              ![c].system_stock =
                                  fetch_store_stock_levels(requests[c].session.store_id),
                              ![c].movement_type_id = movement_type_id,
                              ![c].pc = "write" ]
                    /\ last' = RespOf(c, "stocktake_confirm", requests[c].session_id,
                                      "reading")
            /\ UNCHANGED database

\* stocktake_confirm: the INSERTs, the UPDATE and db.session.commit()
ConfirmWrite ==
    \E c \in Connections :
        LET r == stocktake_confirm_write(requests[c], Now)
        IN  /\ requests[c].op = "stocktake_confirm"
            /\ requests[c].pc = "write"
            /\ inventory_movements' = r.inventory_movements
            /\ stocktake_sessions' = r.stocktake_sessions
            /\ requests' = [ requests EXCEPT ![c] = Idle ]
            /\ last' = RespOf(c, "stocktake_confirm", r.sid, r.outcome)
            /\ UNCHANGED <<movement_types, materials, stocktake_items,
                           stocktake_order_items, minimums, reports,
                           foreign_keys, tx>>

\* stocktake_edit up to its first write
EditSelectSession(users, session_ids, forms) ==
    \E c \in Connections, user \in users, session_id \in session_ids, form \in forms :
        LET row == SelectSession(user, session_id, "confirmed_locked")
            outcome == IF row = "draft"
                       THEN EditFormOutcome(stocktake_sessions[session_id], form)
                       ELSE row
        IN  /\ requests[c] = Idle
            /\ IF outcome = "draft"
               THEN /\ requests' =
                          [ requests EXCEPT ![c] =
                              SessionRequest("stocktake_edit", "write", user,
                                             session_id, form) ]
                    /\ last' = RespOf(c, "stocktake_edit", session_id, "reading")
               ELSE /\ requests' = requests
                    /\ last' = RespOf(c, "stocktake_edit", session_id, outcome)
            /\ UNCHANGED database

\* stocktake_edit: its writes and db.session.commit(), or the rollback
EditWrite ==
    \E c \in Connections :
        LET r == stocktake_edit_write(requests[c])
        IN  /\ requests[c].op = "stocktake_edit"
            /\ stocktake_sessions' = r.stocktake_sessions
            /\ stocktake_items' = r.stocktake_items
            /\ stocktake_order_items' = r.stocktake_order_items
            /\ requests' = [ requests EXCEPT ![c] = Idle ]
            /\ last' = RespOf(c, "stocktake_edit", r.sid, r.outcome)
            /\ UNCHANGED <<movement_types, materials, inventory_movements,
                           minimums, reports, foreign_keys, tx>>

\* stocktake_delete up to its first write
DeleteSelectSession(users, session_ids) ==
    \E c \in Connections, user \in users, session_id \in session_ids :
        LET outcome == SelectSession(user, session_id, "confirmed_locked")
        IN  /\ requests[c] = Idle
            /\ IF outcome = "draft"
               THEN /\ requests' =
                          [ requests EXCEPT ![c] =
                              SessionRequest("stocktake_delete", "write", user,
                                             session_id, NULL) ]
                    /\ last' = RespOf(c, "stocktake_delete", session_id, "reading")
               ELSE /\ requests' = requests
                    /\ last' = RespOf(c, "stocktake_delete", session_id, outcome)
            /\ UNCHANGED database

\* stocktake_delete: the DELETE statements and db.session.commit()
DeleteWrite ==
    \E c \in Connections :
        LET r == stocktake_delete_write(requests[c])
        IN  /\ requests[c].op = "stocktake_delete"
            /\ stocktake_sessions' = r.stocktake_sessions
            /\ stocktake_items' = r.stocktake_items
            /\ stocktake_order_items' = r.stocktake_order_items
            /\ requests' = [ requests EXCEPT ![c] = Idle ]
            /\ last' = RespOf(c, "stocktake_delete", r.sid, r.outcome)
            /\ UNCHANGED <<movement_types, materials, inventory_movements,
                           minimums, reports, foreign_keys, tx>>

----------------------------------------------------------------------------
(* The race specification: the head office creates a draft of store 1 with   *)
(* every count at MaxQty and enters movements of material 1 into store 1,    *)
(* while two connections serve confirms, recounts (every count 0) and        *)
(* deletes of the session, statement by statement. One session exists at a  *)
(* time, and no confirm is begun once the ledger has more than MaxRows rows. *)

RaceMovements == { form \in MovementForms({1}, {1}, {MaxQty}) : form.store_id = 1 }

NextRace ==
    \/ /\ DOMAIN stocktake_sessions = {}
       /\ StocktakeAdd({Admin}, OperationsCounts(MaxQty))
    \/ MovementAdd(RaceMovements)
    \/ /\ Len(inventory_movements) <= MaxRows
       /\ ConfirmSelectSession({Admin}, DOMAIN stocktake_sessions)
    \/ ConfirmSelectItems
    \/ ConfirmSelectStock
    \/ ConfirmWrite
    \/ EditSelectSession({Admin}, DOMAIN stocktake_sessions, OperationsCounts(0))
    \/ EditWrite
    \/ DeleteSelectSession({Admin}, DOMAIN stocktake_sessions)
    \/ DeleteWrite

SpecRace == Init /\ [][NextRace]_vars

----------------------------------------------------------------------------
(* Creates statement by statement *)

\* daily_report_add up to the SELECT of the existing report: the tests of the
\* form, then SELECT id FROM daily_reports WHERE store_id = ? AND date = ?
daily_report_add_select(user, form) ==
    LET store_id == FormStore(user, form, user.store_id)
    IN  IF form.date = NULL THEN [ outcome |-> "missing_date" ]
        ELSE IF store_id \notin stores THEN [ outcome |-> "invalid_store" ]
        ELSE [ outcome |-> "reading", store_id |-> store_id,
               existing |-> ExistingReport(daily_reports, store_id, form.date, NoId) ]

\* the writes of daily_report_add for the answer its SELECT got: the UPDATE of
\* the existing report, or the INSERT, which idx_daily_reports_store_date
\* refuses when the store and date have a report by now; no except clause
\* surrounds it. Then the DELETE and INSERT of the orders
daily_report_add_write(request) ==
    LET form == request.form
        taken == ExistingReport(daily_reports, request.store_id, form.date, NoId)
        daily_report_id == IF request.existing # NoId THEN request.existing
                           ELSE NextId(DOMAIN daily_reports)
        orders == ReportOrdersOfForm(daily_report_id, form, materials)
    IN  IF request.existing = NoId /\ taken # NoId
        THEN ReportsUnchanged("integrity_error", NoId)
        ELSE IF /\ request.existing # NoId
                /\ request.existing \notin DOMAIN daily_reports
                /\ foreign_keys /\ orders # {}
        THEN ReportsUnchanged("integrity_error", NoId)
        ELSE [ outcome |-> "ok", id |-> daily_report_id,
               daily_reports |->
                   IF request.existing = NoId
                   THEN (daily_report_id :> Report(request.store_id, form.date, form.sales))
                            @@ daily_reports
                   ELSE [ id \in DOMAIN daily_reports |->
                            IF id = daily_report_id
                            THEN [ daily_reports[id] EXCEPT !.sales = form.sales ]
                            ELSE daily_reports[id] ],
               daily_report_orders |->
                   { dro \in daily_report_orders : dro.daily_report_id # daily_report_id }
                     \cup orders ]

\* daily_report_add up to its first write
ReportSelectExisting(users, forms) ==
    \E c \in Connections, user \in users, form \in forms :
        LET r == daily_report_add_select(user, form)
        IN  /\ requests[c] = Idle
            /\ IF r.outcome = "reading"
               THEN requests' = [ requests EXCEPT ![c] =
                                    [ op |-> "daily_report_add", user |-> user,
                                      form |-> form, store_id |-> r.store_id,
                                      existing |-> r.existing ] ]
               ELSE requests' = requests
            /\ last' = RespOf(c, "daily_report_add", NoId, r.outcome)
            /\ UNCHANGED database

\* daily_report_add: its writes and db.session.commit(), or the exception that
\* leaves the handler
ReportWrite ==
    \E c \in Connections :
        LET r == daily_report_add_write(requests[c])
        IN  /\ requests[c].op = "daily_report_add"
            /\ RowsHeld + Cardinality(DOMAIN r.daily_reports \ DOMAIN daily_reports)
                  <= MaxRows
            /\ NextId(DOMAIN daily_reports) <= MaxRows + 1
            /\ daily_reports' = r.daily_reports
            /\ daily_report_orders' = r.daily_report_orders
            /\ requests' = [ requests EXCEPT ![c] = Idle ]
            /\ last' = RespOf(c, "daily_report_add", r.id, r.outcome)
            /\ UNCHANGED <<movement_types, materials, inventory_movements,
                           stocktake_sessions, stocktake_items, stocktake_order_items,
                           minimums, foreign_keys, tx>>

\* the stocktake_sessions rows that the open stocktake_add requests of the
\* other connections have inserted and not committed
InsertedByOthers(c) ==
    { d \in Connections \ {c} : requests[d].op = "stocktake_add" }

\* idx_stocktake_sessions_monthly_unique makes an INSERT wait while another
\* transaction holds an uncommitted row of the same store and month
WaitsForOther(c, session_type, store_id, count_month) ==
    /\ session_type = "monthly"
    /\ \E d \in InsertedByOthers(c) :
          /\ requests[d].session.session_type = "monthly"
          /\ requests[d].session.store_id = store_id
          /\ requests[d].session.count_month = count_month

\* stocktake_add up to its INSERT INTO stocktake_sessions: the tests of the
\* form, the INSERT and, for a monthly session, the IntegrityError that the
\* handler answers with "already exists" after a rollback
SessionInsert(users, forms) ==
    \E c \in Connections, user \in users, form \in forms :
        LET r == stocktake_add(user, form)
            session_id ==
                NextId(DOMAIN stocktake_sessions
                         \cup { requests[d].session_id : d \in InsertedByOthers(c) })
            store_id == IF is_admin_user(user) /\ form.store_id # NoId
                        THEN form.store_id ELSE user.store_id
            session_type == IF form.session_type \in {"ad_hoc", "monthly"}
                            THEN form.session_type ELSE "ad_hoc"
            count_month == IF session_type = "monthly"
                           THEN (IF form.count_month = NULL THEN Prefix7(form.date)
                                 ELSE form.count_month)
                           ELSE NULL
        IN  /\ requests[c] = Idle
            /\ IF r.outcome \in {"ok", "missing_count"}
               THEN /\ ~WaitsForOther(c, session_type, store_id, count_month)
                    /\ RowsHeld + Cardinality(InsertedByOthers(c)) < MaxRows
                    /\ session_id <= MaxRows
                    /\ requests' =
                          [ requests EXCEPT ![c] =
                              [ op |-> "stocktake_add", user |-> user, form |-> form,
                                session_id |-> session_id,
                                session |-> Session(store_id, form.date, session_type,
                                                    count_month, "draft", NoId) ] ]
                    /\ last' = RespOf(c, "stocktake_add", session_id, "writing")
               ELSE /\ requests' = requests
                    /\ last' = RespOf(c, "stocktake_add", NoId, r.outcome)
            /\ UNCHANGED database

\* stocktake_add after its INSERT: the test of the counts with its rollback,
\* the items, the order items and db.session.commit()
SessionCommit ==
    \E c \in Connections :
        LET request == requests[c]
            missing == CountMissing(request.form, materials)
        IN  /\ request.op = "stocktake_add"
            /\ stocktake_sessions' =
                   IF missing THEN stocktake_sessions
                   ELSE (request.session_id :> request.session) @@ stocktake_sessions
            /\ stocktake_items' =
                   IF missing THEN stocktake_items
                   ELSE stocktake_items
                          \cup ItemsOfForm(request.session_id, request.form, materials)
            /\ stocktake_order_items' =
                   IF missing THEN stocktake_order_items
                   ELSE stocktake_order_items
                          \cup OrderItemsOfForm(request.session_id, request.form, materials)
            /\ requests' = [ requests EXCEPT ![c] = Idle ]
            /\ last' = RespOf(c, "stocktake_add",
                              IF missing THEN NoId ELSE request.session_id,
                              IF missing THEN "missing_count" ELSE "ok")
            /\ UNCHANGED <<movement_types, materials, inventory_movements,
                           minimums, reports, foreign_keys, tx>>

----------------------------------------------------------------------------
(* The create race specification: two connections serve the saves of the     *)
(* daily report of 2024-06-30 and the creates of the monthly session of      *)
(* June 2024, of either store, statement by statement; the head office       *)
(* deletes reports and sessions.                                             *)

RaceReports == ReportForms({"2024-06-30"}, stores)

RaceSessions ==
    StocktakeForms({"2024-06-30"}, {"monthly"}, {NULL}, stores,
                   { [m \in AllMaterialIds |-> 0],
                     [m \in AllMaterialIds |-> IF m = 1 THEN 0 ELSE Missing] },
                   {[m \in AllMaterialIds |-> Missing]})

NextCreateRace ==
    \/ ReportSelectExisting({Admin}, RaceReports)
    \/ ReportWrite
    \/ DailyReportDelete({Admin}, DOMAIN daily_reports)
    \/ SessionInsert({Admin}, RaceSessions)
    \/ SessionCommit
    \/ StocktakeDelete({Admin}, DOMAIN stocktake_sessions)

SpecCreateRace == Init /\ [][NextCreateRace]_vars

----------------------------------------------------------------------------
(* Properties of the reconciliation *)

\* the stocktake_items rows of a session
SessionItems(session_id) == { si \in stocktake_items : si.session_id = session_id }

\* the step is a confirm request that was carried out
ConfirmCommitted == last'.op = "stocktake_confirm" /\ last'.outcome = "ok"

\* the rows the step appended to the ledger, as indexes of the new ledger
Appended == (Len(inventory_movements) + 1)..Len(inventory_movements')

\* the step left every row of the old ledger in place
LedgerKept ==
    /\ Len(inventory_movements') >= Len(inventory_movements)
    /\ SubSeq(inventory_movements', 1, Len(inventory_movements)) = inventory_movements

\* the stock of a pair before and after the step
StockBefore(material_id, store_id) ==
    CurrentStock(inventory_movements, movement_types, material_id, store_id)
StockAfter(material_id, store_id) ==
    CurrentStock(inventory_movements', movement_types', material_id, store_id)

\* the appended row i is the adjustment of item si of session sid
IsAdjustmentOf(i, si, sid) ==
    LET row == inventory_movements'[i]
        session == stocktake_sessions[sid]
    IN  /\ row.store_id = session.store_id
        /\ row.material_id = si.material_id
        /\ row.movement_type_id \in DOMAIN movement_types
        /\ movement_types[row.movement_type_id] = "adjustment"
        /\ row.quantity = si.counted_quantity
                            - StockBefore(si.material_id, session.store_id)
        /\ row.datetime = session.count_date
        /\ row.memo = sid

\* C1: a confirm appends, for every counted item of the session with
\* |counted - stock| >= 1e-9, exactly one adjustment movement (store, material,
\* signed diff, count_date, memo of the session), nothing for the other items
\* and no other movement.
C1_OneAdjustmentPerItem ==
    [][ ConfirmCommitted =>
          LET sid == last'.sid
              store_id == stocktake_sessions[sid].store_id
          IN  /\ LedgerKept
              /\ \A si \in SessionItems(sid) :
                    LET rows == { i \in Appended :
                                    inventory_movements'[i].material_id = si.material_id }
                        diff == si.counted_quantity - StockBefore(si.material_id, store_id)
                    IN  IF Abs(diff) >= EPS
                        THEN \E i \in rows : rows = {i} /\ IsAdjustmentOf(i, si, sid)
                        ELSE rows = {}
              /\ \A i \in Appended :
                    \E si \in SessionItems(sid) :
                        si.material_id = inventory_movements'[i].material_id
      ]_vars

\* the pairs (material, store) of the model
Pairs == AllMaterialIds \X (stores \cup {3})

C3_ConfirmIdempotent ==
    [][ ( /\ last'.op = "stocktake_confirm"
          /\ last'.sid \in DOMAIN stocktake_sessions
          /\ stocktake_sessions[last'.sid].status = "confirmed" )
        => /\ inventory_movements' = inventory_movements
           /\ stocktake_sessions' = stocktake_sessions
           /\ last'.outcome = "already_confirmed"
      ]_vars

\* a confirmed session whose stock has moved since was confirmed again
C3_Witness ==
    /\ last = Resp("stocktake_confirm", last.sid, "already_confirmed")
    /\ stocktake_sessions[last.sid].confirmed_at # NoId
    /\ \E si \in SessionItems(last.sid) :
          /\ si.material_id \in materials
          /\ Abs(si.counted_quantity
                   - CurrentStock(inventory_movements, movement_types, si.material_id,
                                  stocktake_sessions[last.sid].store_id)) >= EPS

----------------------------------------------------------------------------
(* Properties of the confirm transaction *)

\* the rows the step appended that name session sid in their memo
AppendedFor(sid) == { i \in Appended : inventory_movements'[i].memo = sid }

\* the step turned the draft session sid into a confirmed one
ConfirmedNow(sid) ==
    /\ sid \in DOMAIN stocktake_sessions'
    /\ stocktake_sessions[sid].status = "draft"
    /\ stocktake_sessions'[sid].status = "confirmed"

\* C4: the committed tables change for a confirm in one step only: a step that
\* appends an adjustment of a session or confirms it appends all the
\* adjustments of that session and confirms it; a confirm that fails, and a
\* confirm without the adjustment type in movement_types (answered 500),
\* appends nothing and leaves the session draft.
C4_ConfirmAtomic ==
    [][ /\ LedgerKept
        /\ \A sid \in DOMAIN stocktake_sessions :
              (AppendedFor(sid) # {} \/ ConfirmedNow(sid))
                 => /\ ConfirmedNow(sid)
                    /\ { inventory_movements'[i].material_id : i \in AppendedFor(sid) }
                          = { si.material_id : si \in AdjustedItems(sid) }
                    /\ Cardinality(AppendedFor(sid)) = Cardinality(AdjustedItems(sid))
        /\ ( /\ last'.op = "stocktake_confirm"
             /\ \/ last'.outcome = "server_error"
                \/ AdjustmentTypeId(movement_types) = NoId )
           => /\ inventory_movements' = inventory_movements
              /\ stocktake_sessions' = stocktake_sessions
              /\ last'.outcome \in {"server_error", "no_adjustment_type"}
              /\ StatusCode(last'.outcome) = 500
      ]_vars

\* a confirm has executed its two INSERTs and not yet its UPDATE: the ledger
\* holds no adjustment of the session, which is still a draft
C4_Witness ==
    /\ tx # NoTx
    /\ Len(tx.pending) = 2
    /\ Len(tx.todo) = 1
    /\ stocktake_sessions[tx.session_id].status = "draft"
    /\ \A i \in 1..Len(inventory_movements) :
          inventory_movements[i].memo # tx.session_id

\* a confirm was answered 500 because movement_types has no adjustment type
C4_MissingTypeWitness ==
    /\ last.op = "stocktake_confirm"
    /\ last.outcome = "no_adjustment_type"
    /\ stocktake_sessions[last.sid].status = "draft"

----------------------------------------------------------------------------
(* Properties of the sessions *)

\* the step left the three stocktake tables as they were
StocktakeTablesKept ==
    /\ stocktake_sessions' = stocktake_sessions
    /\ stocktake_items' = stocktake_items
    /\ stocktake_order_items' = stocktake_order_items

\* C5: an edit or a delete request that targets a confirmed session is answered
\* with an error (403) and leaves the session row, its items and its order
\* items, as every row of the three tables, as they were.
C5_ConfirmedImmutable ==
    [][ ( /\ last'.op \in {"stocktake_edit", "stocktake_delete"}
          /\ last'.sid \in DOMAIN stocktake_sessions
          /\ stocktake_sessions[last'.sid].status = "confirmed" )
        => /\ last'.outcome \in {"confirmed_locked", "forbidden"}
           /\ StatusCode(last'.outcome) = 403
           /\ StocktakeTablesKept
      ]_vars

\* an edit was refused on a confirmed session that has items and an order item
C5_Witness ==
    /\ last.op = "stocktake_edit"
    /\ last.outcome = "confirmed_locked"
    /\ stocktake_sessions[last.sid].status = "confirmed"
    /\ SessionItems(last.sid) # {}
    /\ \E soi \in stocktake_order_items : soi.session_id = last.sid

\* C6: a session appears in status draft, by a create; the only change of a
\* status is draft to confirmed, by a confirm of that session; a confirmed
\* session is present and confirmed after every step.
C6_StatusStateMachine ==
    [][ \A sid \in DOMAIN stocktake_sessions \cup DOMAIN stocktake_sessions' :
          /\ sid \notin DOMAIN stocktake_sessions
                => /\ stocktake_sessions'[sid].status = "draft"
                   /\ last' = Resp("stocktake_add", sid, "ok")
          /\ ( /\ sid \in DOMAIN stocktake_sessions
               /\ sid \in DOMAIN stocktake_sessions'
               /\ stocktake_sessions'[sid].status # stocktake_sessions[sid].status )
                => /\ stocktake_sessions[sid].status = "draft"
                   /\ stocktake_sessions'[sid].status = "confirmed"
                   /\ last' = Resp("stocktake_confirm", sid, "ok")
          /\ ( /\ sid \in DOMAIN stocktake_sessions
               /\ stocktake_sessions[sid].status = "confirmed" )
                => /\ sid \in DOMAIN stocktake_sessions'
                   /\ stocktake_sessions'[sid].status = "confirmed"
      ]_vars

\* a delete was refused on a confirmed session, next to a draft session
C6_Witness ==
    /\ last.op = "stocktake_delete"
    /\ last.outcome = "confirmed_locked"
    /\ stocktake_sessions[last.sid].status = "confirmed"
    /\ \E sid \in DOMAIN stocktake_sessions : stocktake_sessions[sid].status = "draft"

\* C7: no two monthly sessions hold the same (store_id, count_month).
C7_MonthlyUnique ==
    \A a, b \in DOMAIN stocktake_sessions :
        ( /\ a # b
          /\ stocktake_sessions[a].session_type = "monthly"
          /\ stocktake_sessions[b].session_type = "monthly" )
        => \/ stocktake_sessions[a].store_id # stocktake_sessions[b].store_id
           \/ stocktake_sessions[a].count_month # stocktake_sessions[b].count_month

\* an edit that would have moved a monthly session onto the store and month of
\* another monthly session was refused
C7_Witness ==
    /\ last.op = "stocktake_edit"
    /\ last.outcome = "already_exists"
    /\ \E a, b \in DOMAIN stocktake_sessions :
          /\ a # b
          /\ stocktake_sessions[a].session_type = "monthly"
          /\ stocktake_sessions[b].session_type = "monthly"

\* the store and the month a create request asks for
RequestedStore(user, form) ==
    IF is_admin_user(user) /\ form.store_id # NoId THEN form.store_id ELSE user.store_id
RequestedMonth(form) ==
    IF form.count_month = NULL THEN Prefix7(form.date) ELSE form.count_month

\* a monthly session of that store and month exists
MonthlyExists(store_id, count_month) ==
    \E sid \in DOMAIN stocktake_sessions :
        /\ stocktake_sessions[sid].session_type = "monthly"
        /\ stocktake_sessions[sid].store_id = store_id
        /\ stocktake_sessions[sid].count_month = count_month

\* C8: while a monthly session exists for (store, month), every create of a
\* monthly session for that store and month, with or without its counts, is
\* answered "already exists" (not "missing count", not "bad month") and leaves
\* the three stocktake tables as they were: the first session is unchanged and
\* no row of the request is written.
C8_SecondMonthlyCreateFails ==
    \A user \in Users, form \in CreateForms :
        ( /\ form.session_type = "monthly"
          /\ RequestedStore(user, form) \in stores
          /\ MonthlyExists(RequestedStore(user, form), RequestedMonth(form)) )
        => LET r == stocktake_add(user, form)
           IN  /\ r.outcome = "already_exists"
               /\ r.outcome \notin {"missing_count", "bad_month"}
               /\ StatusCode(r.outcome) = 400
               /\ r.stocktake_sessions = stocktake_sessions
               /\ r.stocktake_items = stocktake_items
               /\ r.stocktake_order_items = stocktake_order_items

\* a second create of a monthly session was answered "already exists" and the
\* first session is the only one
C8_Witness ==
    /\ last = Resp("stocktake_add", NoId, "already_exists")
    /\ Cardinality(DOMAIN stocktake_sessions) = 1
    /\ \A sid \in DOMAIN stocktake_sessions :
          /\ stocktake_sessions[sid].session_type = "monthly"
          /\ SessionItems(sid) # {}

----------------------------------------------------------------------------
(* Properties of the stock aggregation *)

\* the sign the claim gives a movement: -1 for outbound and waste, +1 otherwise
ClaimedSign(ledger, types, i) ==
    IF /\ ledger[i].movement_type_id \in DOMAIN types
       /\ types[ledger[i].movement_type_id] \in {"outbound", "waste"}
    THEN -1 ELSE 1

\* quantity times sign, summed over the first n rows of the ledger that belong
\* to the pair, in insertion order
RECURSIVE SignedSum(_, _, _, _, _)
SignedSum(ledger, types, material_id, store_id, n) ==
    IF n = 0 THEN 0
    ELSE SignedSum(ledger, types, material_id, store_id, n - 1)
           + ( IF ledger[n].material_id = material_id /\ ledger[n].store_id = store_id
               THEN ledger[n].quantity * ClaimedSign(ledger, types, n)
               ELSE 0 )

\* the ledger with its rows in reverse order of insertion
Reversed(ledger) == [ i \in 1..Len(ledger) |-> ledger[Len(ledger) + 1 - i] ]

\* C9: for every pair (material, store) the stock computed by
\* fetch_store_stock_levels and by the materials page is the sum of quantity
\* times sign over the movements of the pair, and is the same for the ledger
\* inserted in the reverse order.
C9_StockIsSignedSum ==
    \A material_id \in AllMaterialIds, store_id \in StoreIds :
        LET sum == SignedSum(inventory_movements, movement_types, material_id,
                             store_id, Len(inventory_movements))
        IN  /\ CurrentStock(inventory_movements, movement_types, material_id, store_id)
                 = sum
            /\ PerStoreStock(material_id, store_id) = sum
            /\ CurrentStock(Reversed(inventory_movements), movement_types,
                            material_id, store_id)
                 = CurrentStock(inventory_movements, movement_types, material_id,
                                store_id)

\* the sum of a function over a set of stores
RECURSIVE SumOverStores(_, _)
SumOverStores(material_id, store_ids) ==
    IF store_ids = {} THEN 0
    ELSE LET st == CHOOSE x \in store_ids : TRUE
         IN PerStoreStock(material_id, st) + SumOverStores(material_id, store_ids \ {st})

\* C10: the stock of a material with the store omitted is the sum of its
\* per-store stocks over the stores; a material, or a pair, without movements
\* has stock zero.
C10_TotalIsSumOverStores ==
    \A material_id \in AllMaterialIds :
        /\ TotalStock(material_id) = SumOverStores(material_id, stores)
        /\ (\A i \in 1..Len(inventory_movements) :
                inventory_movements[i].material_id # material_id)
              => TotalStock(material_id) = 0
        /\ \A store_id \in StoreIds :
              (\A i \in 1..Len(inventory_movements) :
                  \/ inventory_movements[i].material_id # material_id
                  \/ inventory_movements[i].store_id # store_id)
                => /\ PerStoreStock(material_id, store_id) = 0
                   /\ CurrentStock(inventory_movements, movement_types,
                                   material_id, store_id) = 0

----------------------------------------------------------------------------
(* Properties of the stock status *)

\* the label the contract gives a quantity q and a number m as minimum
ContractLabel(q, m) ==
    LET minimum == IF m <= 0 THEN 0 ELSE m
    IN  CASE minimum > 0 /\ q < minimum -> "stock-low"
          [] minimum > 0 /\ q > 2 * minimum -> "stock-high"
          [] OTHER -> "stock-ok"

\* C11: classify returns one label for every input: unknown when the minimum
\* is absent or no number; otherwise, an absent quantity read as 0, low iff
\* minimum > 0 and quantity < minimum, high iff minimum > 0 and
\* quantity > 2 x minimum, and ok in every other case
C11_ClassifyContract ==
    last.op = "classify_stock" =>
        LET q == IF last.quantity = None THEN 0 ELSE last.quantity.value
            m == last.minimum_stock
        IN  /\ last.label \in {"stock-unknown", "stock-low", "stock-ok", "stock-high"}
            /\ (m = None \/ m = NotANumber) => last.label = "stock-unknown"
            /\ (m # None /\ m # NotANumber) => last.label = ContractLabel(q, m.value)

\* a quantity equal to the minimum and one equal to twice the minimum are ok
C11_Witness ==
    /\ last.op = "classify_stock"
    /\ last.minimum_stock = Number(MaxQty)
    /\ last.quantity = Number(2 * MaxQty)
    /\ last.label = "stock-ok"

\* low < ok < high
Rank(label) ==
    CASE label = "stock-low" -> 1
      [] label = "stock-ok" -> 2
      [] label = "stock-high" -> 3
      [] OTHER -> 0

\* C12: for a fixed minimum m > 0 and quantities q1 <= q2 the label of q2 is
\* not lower than the label of q1 in the order low < ok < high
C12_ClassifyMonotonic ==
    [][ ( /\ last.op = "classify_stock" /\ last'.op = "classify_stock"
          /\ last.minimum_stock = last'.minimum_stock
          /\ last.minimum_stock.is = "number" /\ last.minimum_stock.value > 0
          /\ last.quantity.is = "number" /\ last'.quantity.is = "number"
          /\ last.quantity.value <= last'.quantity.value )
        => Rank(last.label) <= Rank(last'.label) ]_vars

\* a quantity below a positive minimum has been classified low and a larger
\* one is classified high next
C12_Witness ==
    /\ last.op = "classify_stock"
    /\ last.minimum_stock = Number(1)
    /\ last.quantity = Number(3)
    /\ last.label = "stock-high"

\* the minimum the contract applies to a (material, store) pair: the value of
\* the material_store_minimums row of the pair when there is one with a value,
\* the global minimum of the material otherwise
AppliedMinimum(material_id, store_id) ==
    IF /\ <<material_id, store_id>> \in DOMAIN material_store_minimums
       /\ material_store_minimums[<<material_id, store_id>>] # None
    THEN material_store_minimums[<<material_id, store_id>>]
    ELSE material_minimum_stock[material_id]

\* C13: the per-store status and the recommended order of a (material, store)
\* pair use the store minimum of the pair when a row with a value exists, also
\* when the value is 0, and the global minimum otherwise; the status over all
\* stores uses the global minimum
C13_StoreMinimumOverrides ==
    /\ last.op = "materials_list" =>
          \A m \in materials :
              /\ last.stock_statuses[m].total =
                     classify_stock(Number(TotalStock(m)), material_minimum_stock[m])
              /\ \A st \in stores :
                     last.stock_statuses[m].stores[st] =
                         classify_stock(Number(PerStoreStock(m, st)), AppliedMinimum(m, st))
    /\ last.op = "daily_report_add_form" =>
          \A m \in materials :
              /\ last.material_rows[m].minimum = AppliedMinimum(m, last.sid)
              /\ last.material_rows[m].recommended_order =
                     recommended_order(CurrentStock(inventory_movements, movement_types,
                                                    m, last.sid),
                                       AppliedMinimum(m, last.sid))

\* store 1 holds material 1 above a store minimum of 0 and below the global
\* minimum: the page shows the store ok and the total low
C13_Witness ==
    /\ last.op = "materials_list"
    /\ material_minimum_stock[1] = Number(MaxQty)
    /\ StoreMinimum(1, 1) = Number(0)
    /\ PerStoreStock(1, 1) = 1
    /\ last.stock_statuses[1].stores[1] = "stock-ok"
    /\ last.stock_statuses[1].stores[2] = "stock-low"
    /\ last.stock_statuses[1].total = "stock-low"

----------------------------------------------------------------------------
(* Properties of the recommended order *)

\* the least whole number that is not below x
RECURSIVE LeastWholeAbove(_)
LeastWholeAbove(x) == IF x <= 0 THEN 0 ELSE 1 + LeastWholeAbove(x - One)

\* the recommended order of the contract
ContractOrder(stock, minimum) ==
    IF minimum.is = "number" /\ minimum.value > 0 /\ stock < minimum.value
    THEN LeastWholeAbove(minimum.value - stock)
    ELSE 0

\* the store a form page is about
PageStore ==
    IF last.op = "daily_report_edit_form" THEN daily_reports[last.sid].store_id
    ELSE last.sid

----------------------------------------------------------------------------
(* Properties of the daily reports *)

\* the reports of a store and date in a daily_reports table
ReportsOf(reports_, store_id, date) ==
    { id \in DOMAIN reports_ : reports_[id].store_id = store_id /\ reports_[id].date = date }

\* C15: there is at most one report for each store and date; saving for a
\* store and date that has a report updates that report in place (same id,
\* figures and orders replaced) and inserts only when there is none, so that a
\* second save leaves one row with the second figures; editing a report onto
\* the store and date of another report is answered "already exists" and
\* changes nothing
C15_OneReportPerStoreAndDate ==
    /\ \A id1, id2 \in DOMAIN daily_reports :
           ( /\ daily_reports[id1].store_id = daily_reports[id2].store_id
             /\ daily_reports[id1].date = daily_reports[id2].date ) => id1 = id2
    /\ \A user \in Users, form \in SaveForms :
           LET r == daily_report_add(user, form)
               before == ReportsOf(daily_reports, r.daily_reports[r.id].store_id, form.date)
           IN  r.outcome = "ok" =>
                 /\ ReportsOf(r.daily_reports, r.daily_reports[r.id].store_id, form.date)
                        = {r.id}
                 /\ r.daily_reports[r.id].sales = form.sales
                 /\ { dro \in r.daily_report_orders : dro.daily_report_id = r.id }
                        = ReportOrdersOfForm(r.id, form, materials)
                 /\ before # {} => ( before = {r.id}
                                     /\ DOMAIN r.daily_reports = DOMAIN daily_reports )
                 /\ before = {} => ( r.id \notin DOMAIN daily_reports
                                     /\ DOMAIN r.daily_reports
                                          = DOMAIN daily_reports \cup {r.id} )
                 /\ \A id \in DOMAIN daily_reports \ {r.id} :
                        r.daily_reports[id] = daily_reports[id]
    /\ \A user \in Users, id \in DOMAIN daily_reports, form \in ReportEditForms :
           LET r == daily_report_edit(user, id, form)
               target == FormStore(user, form, daily_reports[id].store_id)
           IN  ( /\ is_admin_user(user) \/ daily_reports[id].store_id = user.store_id
                 /\ form.date # NULL
                 /\ ReportsOf(daily_reports, target, form.date) \ {id} # {} )
               => ( /\ r.outcome = "already_exists"
                    /\ StatusCode(r.outcome) = 400
                    /\ r.daily_reports = daily_reports
                    /\ r.daily_report_orders = daily_report_orders )

\* report 1 has been saved again while report 2 exists: it is updated in
\* place and holds the figures and the order of the second save
C15_Witness ==
    /\ last = Resp("daily_report_add", 1, "ok")
    /\ DOMAIN daily_reports = {1, 2}
    /\ daily_reports[1].sales = MaxQty
    /\ \E dro \in daily_report_orders : dro.daily_report_id = 1

\* an edit of a report onto the store and date of the other one was refused
C15_ConflictWitness ==
    /\ last.op = "daily_report_edit"
    /\ last.outcome = "already_exists"
    /\ Cardinality(DOMAIN daily_reports) = 2

----------------------------------------------------------------------------
(* Properties of the drafts *)

\* the form carries no parseable count for a material of the catalog
LacksCount(form) == \E m \in materials : form.count_qty[m] = Missing

\* the handler wrote nothing to the stocktake tables
NothingWritten(r) ==
    /\ r.stocktake_sessions = stocktake_sessions
    /\ r.stocktake_items = stocktake_items
    /\ r.stocktake_order_items = stocktake_order_items

\* C16: a create succeeds only with a parseable count for every material of
\* the catalog, and the new session then has exactly one item for each material
\* of the catalog; a create that lacks a count is answered with a validation
\* error and persists no session, item or order item
C16_CreateNeedsEveryCount ==
    \A form \in DraftCreateForms :
        LET r == stocktake_add(Admin, form)
            items == { si \in r.stocktake_items : si.session_id = r.sid }
        IN  /\ LacksCount(form) =>
                  /\ r.outcome # "ok"
                  /\ StatusCode(r.outcome) = 400
                  /\ NothingWritten(r)
            /\ r.outcome = "ok" =>
                  /\ ~LacksCount(form)
                  /\ r.sid \notin DOMAIN stocktake_sessions
                  /\ r.sid \in DOMAIN r.stocktake_sessions
                  /\ { si.material_id : si \in items } = materials
                  /\ Cardinality(items) = Cardinality(materials)
                  /\ \A si \in items : si.counted_quantity = form.count_qty[si.material_id]

\* after material 2 has left the catalog a form with the count of material 1
\* alone has created a session, which holds one item
C16_Witness ==
    /\ last.op = "stocktake_add"
    /\ last.outcome = "ok"
    /\ materials = {1}
    /\ SessionItems(last.sid) =
           { [session_id |-> last.sid, material_id |-> 1, counted_quantity |-> MaxQty] }

\* a create that lacked the count of material 2 was refused
C16_RefusedWitness ==
    /\ last = Resp("stocktake_add", NoId, "missing_count")
    /\ materials = AllMaterialIds

\* the store an edit form of the head office asks for
EditTargetStore(session_id, form) ==
    IF form.store_id # NoId THEN form.store_id ELSE stocktake_sessions[session_id].store_id

\* the month of the date of the form is a YYYY-MM with a month 01..12
ValidMonthOfDate(form) ==
    MonthRegexOk(Prefix7(form.date)) /\ MonthRangeOk(Prefix7(form.date))

\* C17: an edit of a draft is rejected, the stored session, items and order
\* items unchanged, when a count is missing for a material of the catalog,
\* when the target store is not an existing store, or when the month of a
\* monthly session is not a valid YYYY-MM with a month 01..12; an accepted
\* edit replaces the items and the order items by the submitted ones and
\* leaves the status draft and the session_type unchanged
C17_EditValidatesLikeCreate ==
    \A session_id \in DOMAIN stocktake_sessions, form \in DraftEditForms :
        LET session == stocktake_sessions[session_id]
            r == stocktake_edit(Admin, session_id, form)
        IN  session.status = "draft" =>
              /\ ( \/ LacksCount(form)
                   \/ EditTargetStore(session_id, form) \notin stores
                   \/ session.session_type = "monthly" /\ ~ValidMonthOfDate(form) )
                  => ( r.outcome # "ok" /\ NothingWritten(r) )
              /\ r.outcome = "ok" =>
                    /\ { si \in r.stocktake_items : si.session_id = session_id }
                           = ItemsOfForm(session_id, form, materials)
                    /\ { soi \in r.stocktake_order_items : soi.session_id = session_id }
                           = OrderItemsOfForm(session_id, form, materials)
                    /\ r.stocktake_sessions[session_id].status = "draft"
                    /\ r.stocktake_sessions[session_id].session_type = session.session_type

\* another monthly session of the store holds the month
MonthTaken(session_id, store_id, count_month) ==
    \E other \in DOMAIN stocktake_sessions \ {session_id} :
        /\ stocktake_sessions[other].session_type = "monthly"
        /\ stocktake_sessions[other].store_id = store_id
        /\ stocktake_sessions[other].count_month = count_month

\* C18: an edit of the date of a monthly draft sets count_month to the YYYY-MM
\* of the new date; when another monthly session of the same store holds that
\* month the edit is answered "already exists" and the session keeps its date,
\* month, items and order items; an edit of an ad-hoc session sets no
\* count_month
C18_EditRecomputesMonth ==
    \A session_id \in DOMAIN stocktake_sessions, form \in DraftEditForms :
        LET session == stocktake_sessions[session_id]
            r == stocktake_edit(Admin, session_id, form)
        IN  session.status = "draft" =>
              /\ ( session.session_type = "monthly" /\ r.outcome = "ok" ) =>
                    /\ r.stocktake_sessions[session_id].count_date = form.date
                    /\ r.stocktake_sessions[session_id].count_month = Prefix7(form.date)
              /\ ( /\ session.session_type = "monthly"
                   /\ MonthTaken(session_id, EditTargetStore(session_id, form),
                                 Prefix7(form.date)) ) =>
                    /\ r.outcome = "already_exists"
                    /\ StatusCode(r.outcome) = 400
                    /\ NothingWritten(r)
              /\ session.session_type = "ad_hoc" =>
                    r.stocktake_sessions[session_id].count_month = NULL

\* store 1 has the monthly sessions of June and July, and the edit that moved
\* one of them into the month of the other was refused
C18_Witness ==
    /\ last.op = "stocktake_edit"
    /\ last.outcome = "already_exists"
    /\ ~foreign_keys
    /\ \E a, b \in DOMAIN stocktake_sessions :
          /\ stocktake_sessions[a] = Session(1, "2024-06-30", "monthly", "2024-06", "draft", NoId)
          /\ stocktake_sessions[b] = Session(1, "2024-07-31", "monthly", "2024-07", "draft", NoId)

----------------------------------------------------------------------------
(* Properties of the ledger *)

\* every count of the session equals the stock of its material in the store of
\* the session
CountsEqualStock(sid) ==
    \A si \in SessionItems(sid) :
        si.counted_quantity = CurrentStock(inventory_movements, movement_types,
                                           si.material_id, stocktake_sessions[sid].store_id)

\* C19: the confirm of a draft whose counts equal the stock of every material
\* in the store of the session appends no adjustment and changes nothing but
\* the status and confirmed_at of the session
C19_RoundTrip ==
    [][ ( /\ last'.op = "stocktake_confirm"
          /\ last'.sid \in DOMAIN stocktake_sessions
          /\ stocktake_sessions[last'.sid].status = "draft"
          /\ CountsEqualStock(last'.sid) )
        => ( /\ last'.outcome = "ok"
             /\ inventory_movements' = inventory_movements
             /\ DOMAIN stocktake_sessions' = DOMAIN stocktake_sessions
             /\ \A id \in DOMAIN stocktake_sessions :
                   IF id = last'.sid
                   THEN /\ stocktake_sessions'[id].status = "confirmed"
                        /\ stocktake_sessions'[id] =
                               [ stocktake_sessions[id] EXCEPT
                                   !.status = "confirmed",
                                   !.confirmed_at = stocktake_sessions'[id].confirmed_at ]
                   ELSE stocktake_sessions'[id] = stocktake_sessions[id]
             /\ UNCHANGED <<movement_types, materials, stocktake_items,
                            stocktake_order_items, minimums, reports>> )
      ]_vars

\* a session that counts a stock that is not zero has been confirmed and the
\* ledger holds no adjustment of it
C19_Witness ==
    /\ last.op = "stocktake_confirm" /\ last.outcome = "ok"
    /\ stocktake_sessions[last.sid].status = "confirmed"
    /\ CountsEqualStock(last.sid)
    /\ \E si \in SessionItems(last.sid) : si.counted_quantity # 0
    /\ \A i \in 1..Len(inventory_movements) : inventory_movements[i].memo # last.sid

\* C20: the rows of the ledger are changed or removed by the movement edit and
\* the movement delete only: movement_add and stocktake_confirm append rows,
\* and every other operation leaves the ledger as it is
C20_LedgerAppendOnly ==
    [][ last'.op \notin {"edit_movement", "delete_movement"} =>
          /\ Len(inventory_movements') >= Len(inventory_movements)
          /\ \A i \in 1..Len(inventory_movements) :
                 inventory_movements'[i] = inventory_movements[i]
          /\ last'.op \notin {"movement_add", "stocktake_confirm"}
                 => inventory_movements' = inventory_movements
      ]_vars

\* a confirm has appended its adjustment behind a movement entered by hand,
\* which is as it was entered
C20_Witness ==
    /\ last.op = "stocktake_confirm" /\ last.outcome = "ok"
    /\ Len(inventory_movements) >= 2
    /\ inventory_movements[1] = Movement(1, 1, 1, 1, 1, "2024-06-01", NoId)
    /\ inventory_movements[Len(inventory_movements)].memo = last.sid

----------------------------------------------------------------------------
(* Properties of the access to the stores *)

\* the users that are no admin
NonAdmins == { user \in Users : ~is_admin_user(user) }

\* the answer of a ledger handler is a permission error and the ledger is kept
LedgerDenied(r) ==
    /\ r.outcome = "forbidden"
    /\ r.inventory_movements = inventory_movements

\* the answer of a stocktake handler is a permission error and nothing is written
StocktakeDenied(r) ==
    /\ r.outcome = "forbidden" /\ StatusCode(r.outcome) = 403
    /\ r.stocktake_sessions = stocktake_sessions
    /\ r.stocktake_items = stocktake_items
    /\ r.stocktake_order_items = stocktake_order_items

\* the sessions and the daily reports of the other stores are closed to a
\* user that is no admin
OtherStoresSessionsDenied(user) ==
    \A sid \in DOMAIN stocktake_sessions :
        stocktake_sessions[sid].store_id # user.store_id =>
            /\ \A form \in AccessCounts : StocktakeDenied(stocktake_edit(user, sid, form))
            /\ StocktakeDenied(stocktake_delete(user, sid))
            /\ LET r == stocktake_confirm(user, sid, Now)
               IN  /\ r.outcome = "forbidden"
                   /\ r.inventory_movements = inventory_movements
                   /\ r.stocktake_sessions = stocktake_sessions

OtherStoresReportsDenied(user) ==
    \A id \in DOMAIN daily_reports :
        daily_reports[id].store_id # user.store_id =>
            /\ \A form \in AccessReports :
                   LET r == daily_report_edit(user, id, form)
                   IN  /\ r.outcome = "forbidden"
                       /\ r.daily_reports = daily_reports
                       /\ r.daily_report_orders = daily_report_orders
            /\ LET r == daily_report_delete(user, id)
               IN  /\ r.outcome = "forbidden"
                   /\ r.daily_reports = daily_reports
                   /\ r.daily_report_orders = daily_report_orders
            /\ daily_report_edit_form(user, id).outcome = "forbidden"

\* C21: every request of a user that is no admin on a movement, a daily report
\* or a stocktake session of another store is denied with a permission error
\* and changes no state
C21_StoreIsolation ==
    \A user \in NonAdmins :
        /\ \A form \in AccessMovements :
               form.store_id # user.store_id => LedgerDenied(movement_add(form))
        /\ \A i \in 1..Len(inventory_movements) :
               inventory_movements[i].store_id # user.store_id =>
                   /\ \A form \in AccessMovements :
                          LedgerDenied(edit_movement(inventory_movements[i].id, form))
                   /\ LedgerDenied(delete_movement(inventory_movements[i].id))
        /\ OtherStoresSessionsDenied(user)
        /\ OtherStoresReportsDenied(user)

----------------------------------------------------------------------------
(* Properties of the catalog *)

\* the materials a step deletes
Deleted == materials \ materials'

\* C23: once the delete of a material is committed, no row of
\* material_store_minimums refers to the deleted material
C23_DeleteCascadesToStoreMinimums ==
    [][ (last'.op = "delete_material" /\ last'.outcome = "ok")
          => \A key \in DOMAIN material_store_minimums' : key[1] \notin Deleted
      ]_vars

\* a material that has a store minimum was deleted
C23_Witness ==
    /\ last.op = "delete_material" /\ last.outcome = "ok"
    /\ \E key \in DOMAIN material_store_minimums : key[1] \notin materials

----------------------------------------------------------------------------
(* Properties of the stocktake items *)

\* C24: every stocktake item refers to an existing session and to an existing
\* material, and a session has at most one item per material
C24_ItemsReferToSessionAndMaterial ==
    /\ \A si \in stocktake_items :
          /\ si.session_id \in DOMAIN stocktake_sessions
          /\ si.material_id \in materials
    /\ \A si, sj \in stocktake_items :
          (si.session_id = sj.session_id /\ si.material_id = sj.material_id)
             => si = sj

\* the part of C24 that is about sessions and uniqueness
C24_ItemsOfOneSession ==
    /\ \A si \in stocktake_items : si.session_id \in DOMAIN stocktake_sessions
    /\ \A si, sj \in stocktake_items :
          (si.session_id = sj.session_id /\ si.material_id = sj.material_id)
             => si = sj

----------------------------------------------------------------------------
(* Properties of the requests that name a missing row *)

\* the answer is the not-found error, which is no validation error
NotFound(r) == r.outcome = "not_found" /\ StatusCode(r.outcome) = 404

\* the sessions: edit, delete and confirm of an id that does not exist
MissingSessionNotFound(user, id) ==
    /\ \A form \in AccessCounts :
           LET r == stocktake_edit(user, id, form)
           IN  NotFound(r) /\ NothingWritten(r)
    /\ LET r == stocktake_delete(user, id)
       IN  NotFound(r) /\ NothingWritten(r)
    /\ LET r == stocktake_confirm(user, id, Now)
       IN  /\ NotFound(r)
           /\ r.inventory_movements = inventory_movements
           /\ r.stocktake_sessions = stocktake_sessions

\* the daily reports: edit form, edit and delete of an id that does not exist
MissingReportNotFound(user, id) ==
    /\ \A form \in AccessReports :
           LET r == daily_report_edit(user, id, form)
           IN  /\ NotFound(r)
               /\ r.daily_reports = daily_reports
               /\ r.daily_report_orders = daily_report_orders
    /\ LET r == daily_report_delete(user, id)
       IN  /\ NotFound(r)
           /\ r.daily_reports = daily_reports
           /\ r.daily_report_orders = daily_report_orders
    /\ NotFound(daily_report_edit_form(user, id))

\* the movements: edit and delete of an id that does not exist
MissingMovementNotFound(id) ==
    /\ \A form \in AccessMovements :
           LET r == edit_movement(id, form)
           IN  NotFound(r) /\ r.inventory_movements = inventory_movements
    /\ LET r == delete_movement(id)
       IN  NotFound(r) /\ r.inventory_movements = inventory_movements

\* C25: a request that names a daily report, a session or a movement that
\* does not exist is answered with the not-found error, which differs from
\* the validation error, and changes no state
C25_MissingIdIsNotFound ==
    \A user \in Users, id \in AccessIds :
        /\ id \notin DOMAIN stocktake_sessions => MissingSessionNotFound(user, id)
        /\ id \notin DOMAIN daily_reports => MissingReportNotFound(user, id)
        /\ id \notin MovementIds(inventory_movements) => MissingMovementNotFound(id)

\* the part of C25 that is about sessions and daily reports
C25_MissingSessionOrReport ==
    \A user \in Users, id \in AccessIds :
        /\ id \notin DOMAIN stocktake_sessions => MissingSessionNotFound(user, id)
        /\ id \notin DOMAIN daily_reports => MissingReportNotFound(user, id)

----------------------------------------------------------------------------
(* Properties of the store of a session and of a daily report *)

\* the rows of after are in the store they had in before, and a new row is in
\* the store of the user
StoresKept(before, after, user) ==
    \A id \in DOMAIN after :
        after[id].store_id = IF id \in DOMAIN before THEN before[id].store_id
                             ELSE user.store_id

\* C29: whatever store_id the form carries, a create of a user that is no
\* admin makes the session or the daily report in the store of the user, and
\* an edit of such a user leaves the store of every session and of every daily
\* report as it is
C29_StaffStayInTheirStore ==
    \A user \in NonAdmins :
        /\ \A form \in AccessCounts :
              /\ StoresKept(stocktake_sessions,
                            stocktake_add(user, form).stocktake_sessions, user)
              /\ \A sid \in DOMAIN stocktake_sessions :
                    LET r == stocktake_edit(user, sid, form)
                    IN  /\ DOMAIN r.stocktake_sessions = DOMAIN stocktake_sessions
                        /\ StoresKept(stocktake_sessions, r.stocktake_sessions, user)
        /\ \A form \in AccessReports :
              /\ StoresKept(daily_reports, daily_report_add(user, form).daily_reports, user)
              /\ \A id \in DOMAIN daily_reports :
                    LET r == daily_report_edit(user, id, form)
                    IN  /\ DOMAIN r.daily_reports = DOMAIN daily_reports
                        /\ StoresKept(daily_reports, r.daily_reports, user)

\* store 1 has a draft and a daily report; the staff of store 1 sends forms
\* that carry store 2: the create and the edit of the session and of the
\* report are accepted and the rows are in store 1, while the same edits sent
\* by the head office move the rows to store 2
C29_Witness ==
    \E user \in NonAdmins, sid \in DOMAIN stocktake_sessions, id \in DOMAIN daily_reports,
       counts \in AccessCounts, report \in AccessReports :
        /\ counts.store_id = 2 /\ report.store_id = 2
        /\ stocktake_sessions[sid].store_id = user.store_id
        /\ daily_reports[id].store_id = user.store_id
        /\ LET r == stocktake_add(user, counts)
           IN  r.outcome = "ok" /\ r.stocktake_sessions[r.sid].store_id = user.store_id
        /\ LET r == stocktake_edit(user, sid, counts)
           IN  r.outcome = "ok" /\ r.stocktake_sessions[sid].store_id = user.store_id
        /\ LET r == daily_report_add(user, report)
           IN  r.outcome = "ok" /\ r.daily_reports[r.id].store_id = user.store_id
        /\ LET r == daily_report_edit(user, id, report)
           IN  r.outcome = "ok" /\ r.daily_reports[id].store_id = user.store_id
        /\ stocktake_edit(Admin, sid, counts).stocktake_sessions[sid].store_id = 2
        /\ daily_report_edit(Admin, id, report).daily_reports[id].store_id = 2

----------------------------------------------------------------------------
(* Properties of the two shortage computations *)

C30_BoundaryWitness ==
    /\ last.op = "material_row"
    /\ \/ last.minimum_stock = Number(MaxQty) /\ last.quantity = Number(MaxQty)
       \/ last.minimum_stock = Number(0) /\ last.quantity = Number(-1)
    /\ ~last.is_low
    /\ last.label = "stock-ok"

----------------------------------------------------------------------------
(* Properties of the requests served at the same time *)

\* C26: no state holds two stocktake adjustments of the same session for the
\* same material, however two confirms of one draft are interleaved
C26_AdjustedAtMostOnce ==
    \A i, j \in 1..Len(inventory_movements) :
        ( /\ inventory_movements[i].memo # NoId
          /\ inventory_movements[i].memo = inventory_movements[j].memo
          /\ inventory_movements[i].material_id = inventory_movements[j].material_id )
            => i = j

\* the step commits the confirm of connection c, which found the session a
\* draft; the session is still a draft and has the items the confirm read
CommitsConfirmOfDraft(c) ==
    /\ requests[c].op = "stocktake_confirm"
    /\ requests[c].pc = "write"
    /\ requests'[c] = Idle
    /\ requests[c].session_id \in DOMAIN stocktake_sessions
    /\ stocktake_sessions[requests[c].session_id].status = "draft"
    /\ ConfirmItems(requests[c].session_id) = requests[c].items

\* C27: when a movement of the store and material is committed between the
\* stock read of a confirm and its commit, the stock right after the commit of
\* the confirm still equals the count of every item (to less than 1e-9, the
\* difference that a confirm leaves alone)
C27_CommittedStockEqualsCount ==
    [][ \A c \in Connections :
          CommitsConfirmOfDraft(c) =>
              \A si \in requests[c].items :
                  Abs(CurrentStock(inventory_movements', movement_types',
                                   si.material_id, requests[c].session.store_id)
                        - si.counted_quantity) < EPS
      ]_vars

\* C28: a confirmed session is never deleted and keeps the items the confirm
\* used, however an edit or a delete of the draft is interleaved with the
\* confirm
C28_ConfirmedSessionKept ==
    [][ /\ \A sid \in DOMAIN stocktake_sessions :
              stocktake_sessions[sid].status = "confirmed" =>
                  /\ sid \in DOMAIN stocktake_sessions'
                  /\ { si \in stocktake_items' : si.session_id = sid }
                        = { si \in stocktake_items : si.session_id = sid }
        /\ \A c \in Connections :
              ( /\ requests[c].op = "stocktake_confirm"
                /\ requests[c].pc = "write"
                /\ requests'[c] = Idle )
                 => /\ requests[c].session_id \in DOMAIN stocktake_sessions'
                    /\ ConfirmItems(requests[c].session_id) = requests[c].items
      ]_vars

----------------------------------------------------------------------------
(* Properties of the creates served at the same time *)

\* the step ends the daily_report_add of connection c, which found no report
\* of its store and date, while the store and date have a report by now
LosesReportRace(c) ==
    /\ requests[c].op = "daily_report_add"
    /\ requests'[c] = Idle
    /\ requests[c].existing = NoId
    /\ ExistingReport(daily_reports, requests[c].store_id, requests[c].form.date, NoId)
          # NoId

\* the monthly sessions of a store and month, and the daily reports of a store
\* and date, after the step
MonthlySessionUnique ==
    \A a, b \in DOMAIN stocktake_sessions' :
        ( /\ stocktake_sessions'[a].session_type = "monthly"
          /\ stocktake_sessions'[b].session_type = "monthly"
          /\ stocktake_sessions'[a].store_id = stocktake_sessions'[b].store_id
          /\ stocktake_sessions'[a].count_month = stocktake_sessions'[b].count_month )
            => a = b

DailyReportUnique ==
    \A a, b \in DOMAIN daily_reports' :
        ( /\ daily_reports'[a].store_id = daily_reports'[b].store_id
          /\ daily_reports'[a].date = daily_reports'[b].date ) => a = b

\* a create of a monthly session whose store and month have a committed
\* session is answered "already exists" and writes nothing
TakenMonthAlreadyExists ==
    \A form \in RaceSessions :
        (\E sid \in DOMAIN stocktake_sessions :
            /\ stocktake_sessions[sid].session_type = "monthly"
            /\ stocktake_sessions[sid].store_id = form.store_id
            /\ stocktake_sessions[sid].count_month = Prefix7(form.date))
          => LET r == stocktake_add(Admin, form)
             IN  /\ r.outcome = "already_exists"
                 /\ StatusCode(r.outcome) = 400
                 /\ NothingWritten(r)

\* C22: of two creates of the same key of which neither saw the other, one
\* commits and the other ends with the "already exists" answer of the
\* application (400, nothing written), never with an unhandled failure; the
\* key stays unique
C22_LosingCreateAlreadyExists ==
    [][ /\ \A c \in Connections :
              LosesReportRace(c)
                 => /\ last'.outcome = "already_exists"
                    /\ StatusCode(last'.outcome) = 400
                    /\ reports' = reports
        /\ TakenMonthAlreadyExists
        /\ last'.op \in {"daily_report_add", "stocktake_add"}
              => StatusCode(last'.outcome) # 500
        /\ DailyReportUnique
        /\ MonthlySessionUnique
      ]_vars

\* the part of C22 that is about the monthly sessions
C22_LosingSessionAlreadyExists ==
    [][ /\ TakenMonthAlreadyExists
        /\ last'.op = "stocktake_add" => StatusCode(last'.outcome) # 500
        /\ MonthlySessionUnique
      ]_vars

\* a create of a monthly session was answered "already exists" while the
\* session of the same store and month was there
C22_SessionWitness ==
    /\ last.op = "stocktake_add"
    /\ last.outcome = "already_exists"
    /\ \E sid \in DOMAIN stocktake_sessions :
          stocktake_sessions[sid].session_type = "monthly"
    /\ \E c \in Connections : requests[c].op = "stocktake_add"

====
